---------------------------- MODULE Spec2Model ----------------------------
(***************************************************************************)
(* Model of the FHEVM encryption bridge and meta-transaction lifecycle:    *)
(*   - useFHEVMMetaTransactions (frontend/src/hooks), the React hook that  *)
(*     owns the caller-visible history,                                    *)
(*   - FHEVMMetaManager (utils/fhevm-meta.ts, unnamed/part_007),           *)
(*   - FHEVMClient.createEncryptedInput and its fallback encoders,         *)
(*     RelayerSDKLoader, PublicKeyStorage and createFhevmInstance          *)
(*     (utils/fhevm.ts, unnamed/part_009),                                 *)
(*   - FHEVMProvider (unnamed/part_005), FHECounterDemo and useFHECounter  *)
(*     (unnamed/part_010), FhevmDecryptionSignature (frontend/src/utils).  *)
(*                                                                         *)
(* The specifications of the module:                                       *)
(*   Spec      the hook and the manager (history, status state machine),   *)
(*   SpecEnc   one createEncryptedParams dispatch into createEncryptedInput*)
(*   SpecPair  two runs of the fallback encoder on identical arguments,    *)
(*   SpecPar   createEncryptedParams over a parameter list and the call    *)
(*             arguments executeMetaTransaction builds from its result,    *)
(*   SpecChain verifyTransaction, getTransactionStatus and the network     *)
(*             queries against an advancing chain,                         *)
(*   SpecInst  RelayerSDKLoader, the key cache, createFhevmInstance and    *)
(*             the initialisation of client and manager,                   *)
(*   SpecCache the get and set calls of PublicKeyStorage,                  *)
(*   SpecRace  createFhevmInstance calls that overlap,                     *)
(*   SpecProv  the initializeFHEVM effect of FHEVMProvider,                *)
(*   SpecCtr   refreshCountHandle and incOrDec of useFHECounter,           *)
(*   SpecSig   FhevmDecryptionSignature.loadOrSign over a string storage.  *)
(***************************************************************************)
EXTENDS Integers, Sequences, FiniteSets, TLC

(***************************************************************************)
(* Bounds of the model.                                                    *)
(***************************************************************************)
\* number of executeMetaTransaction requests the caller makes
MaxCalls == 2

(***************************************************************************)
(* Networks.                                                               *)
(***************************************************************************)
SEPOLIA == 11155111
HARDHAT == 31337

\* FHEVMMetaManager.getSupportedNetworks
getSupportedNetworksWithMainnet == {SEPOLIA, HARDHAT, 1}
getSupportedNetworks == {SEPOLIA, HARDHAT}

\* FHEVMMetaManager.isNetworkSupported
isNetworkSupported(chainId) == chainId \in getSupportedNetworks

\* the chains the wallet can be connected to: the allow-list and mainnet
Chains == getSupportedNetworks \cup {1}

(***************************************************************************)
(* MetaTransaction records.                                                *)
(***************************************************************************)
Terminal == {"completed", "failed"}
Statuses == {"pending", "processing"} \cup Terminal

NoTx == [id |-> 0]

\* the object literal built by the manager: status 'pending', no hash yet
NewMetaTxWithHash(id, chainId) ==
  [id |-> id, chainId |-> chainId, status |-> "pending",
   txHash |-> TRUE, blockNumber |-> FALSE, gasUsed |-> FALSE]
NewMetaTx(id, chainId) ==
  [id |-> id, chainId |-> chainId, status |-> "pending",
   txHash |-> FALSE, blockNumber |-> FALSE, gasUsed |-> FALSE]

\* metaTx.status = receipt.status === 1 ? 'completed' : 'failed'
ReceiptAlwaysCompleted(code) == "completed"
ReceiptKeepsProcessing(code) ==
  IF code = 1 THEN "completed" ELSE "processing"
ReceiptStatus(code) == IF code = 1 THEN "completed" ELSE "failed"

\* the catch block of the manager: metaTx.status = 'failed'
CatchResetsToPending == "pending"
CatchStatus == "failed"

\* the status the polling task gives an entry it has queried
PollStatus(tx, confirmed) == IF confirmed THEN "completed" ELSE tx.status

\* entries the polling task returns untouched, without a query
PollSkipsOnlyCompleted(tx) == tx.status = "completed"
PollSkips(tx) == tx.status \in Terminal \/ ~tx.txHash

\* state.transactions as seen by the executeMetaTransaction callback: the
\* callback is memoised with the dependency list [updateState], so it keeps
\* the state object of the first render, whose transactions are []
ClosureTransactions == << >>

(***************************************************************************)
(* State.  In the hook specification the caller awaits each request before *)
(* it makes the next one, so one request is in flight at a time; `call' is *)
(* that request and, once it has finished, its outcome.                    *)
(***************************************************************************)
VARIABLES
  walletChain,        \* chain the provider is connected to
  initPc,             \* position of the hook's initialize()
  chainIdRef,         \* chainIdRef.current (0 = null), the chainId local too
  managerRef,         \* metaManagerRef.current: [set, chainId]
  isInitialized,      \* state.isInitialized
  hookError,          \* state.error
  transactions,       \* state.transactions, newest first
  currentTransaction, \* state.currentTransaction
  callCount,          \* requests made so far
  call,               \* the latest executeMetaTransaction request
  pollPc,             \* position of updateTransactionStatuses
  pollSnapshot        \* state.transactions captured by the polling closure

hookVars == <<walletChain, initPc, chainIdRef, managerRef, isInitialized,
              hookError, transactions, currentTransaction, callCount, call,
              pollPc, pollSnapshot>>

\* the builder specification: one FHEVMClient, called once per parameter
VARIABLES
  encClient,      \* the client: chainId, fhevmInstance, provider, and whether
                  \* the manager's contractAddress is a valid address
  encParam,       \* the parameter createEncryptedParams is handling
  encArgs,        \* the arguments of createEncryptedInput
  encPc,          \* position inside createEncryptedInput
  encAdded,       \* what the engine's input session has been given
  encPrimaryErr,  \* the error the primary path ended with
  encOutcome      \* how the call ended

encVars == <<encClient, encParam, encArgs, encPc, encAdded, encPrimaryErr,
             encOutcome>>

\* the pair specification: the fallback encoder run twice
VARIABLES
  pairArgs,     \* the arguments both runs are given
  pairIsUrl,    \* whether the client's provider is a URL string
  pairRuns      \* the runs made so far: <<[ts, nonce, out]>>

pairVars == <<pairArgs, pairIsUrl, pairRuns>>

\* the parameter specification: one createEncryptedParams call and the
\* executeMetaTransaction call that is given its result
VARIABLES
  parReady,      \* this.isInitialized && this.fhevmClient of the manager
  parClient,     \* the manager's FHEVMClient
  parParams,     \* the declared parameters, in declaration order
  parPc,         \* position inside createEncryptedParams / the caller
  parIndex,      \* the parameter the for-of loop is at (1-based)
  parLog,        \* the builder calls so far: started and ended, in order
  parEncrypted,  \* the local array encryptedParams
  parReturned,   \* what createEncryptedParams returned: [given, list]
  parTxArgs      \* the arguments the target function was called with

parVars == <<parReady, parClient, parParams, parPc, parIndex, parLog,
             parEncrypted, parReturned, parTxArgs>>

\* the chain specification: one transaction hash, the chain it is sent to
\* and one read of the manager at a time
VARIABLES
  chHeight,   \* the chain's height
  chReceipt,  \* the receipt of the hash, NoReceipt while it is not mined
  qKind,      \* the method called: verify, status, network
  qPc,        \* position inside the method
  qRead,      \* what getTransactionReceipt answered
  qHeight,    \* what getBlockNumber answered, -1 before the answer
  qChain,     \* the chainId isNetworkSupported is asked about
  qOutcome    \* how the call ended

chainVars == <<chHeight, chReceipt, qKind, qPc, qRead, qHeight, qChain,
               qOutcome>>

\* the factory specification: the page's engine, the loader, the key cache
\* and one createFhevmInstance call at a time
VARIABLES
  winSdk,     \* window.relayerSDK
  scripts,    \* the script elements with the CDN url, in document order
  injector,   \* the load() call that injected a script element
  lastLoad,   \* the latest load() call
  loadCount,  \* load() calls made by other callers of the page
  keyCache,   \* the stored key material of the ACL address
  initCalls,  \* initSDK invocations so far
  inst,       \* the createFhevmInstance call, finished or under way
  instCount   \* createFhevmInstance calls made so far

instVars == <<winSdk, scripts, injector, lastLoad, loadCount, keyCache,
              initCalls, inst, instCount>>

\* the cache specification: the two object stores of PublicKeyStorage
VARIABLES
  publicKeyStore,  \* 'publicKeyStore': the stored value of each ACL address
  paramsStore,     \* 'paramsStore': the stored value of each ACL address
  storeOp,         \* the latest get or set call and what it returned
  storeOps         \* get and set calls made so far

cacheVars == <<publicKeyStore, paramsStore, storeOp, storeOps>>

\* the race specification: overlapping createFhevmInstance calls, which
\* share winSdk, initCalls and keyCache
VARIABLES
  race   \* the calls: position, cached material, handle returned

raceVars == <<race>>

\* the provider specification: the effect of FHEVMProvider, run once for
\* every change of the wallet's provider, account or chain
VARIABLES
  walletDeps,        \* the dependencies [provider, account, chainId] now
  initRuns,          \* the initializeFHEVM runs so far, in order
  networkSupported,  \* state networkSupported
  provIsReady,       \* state isReady
  fhevmClient,       \* state fhevmClient
  sdkStatus          \* state sdkStatus

provVars == <<walletDeps, initRuns, networkSupported, provIsReady,
              fhevmClient, sdkStatus>>

\* the counter specification: FHECounterDemo with useFHECounter
VARIABLES
  mountChain,              \* the chainId prop of the first render (0 = null)
  prevChain,               \* the chainId prop before the latest change
  ctrChain,                \* the chainId prop now (0 = null)
  fheCounterRef,           \* fheCounterRef.current
  ethersSigner,            \* state ethersSigner (0 = null)
  ethersReadonlyProvider,  \* state ethersReadonlyProvider is set
  fhevmInstance,           \* the instance of useFhevm is there
  isRefreshingRef,         \* isRefreshingRef.current
  isIncOrDecRef,           \* isIncOrDecRef.current
  countHandle,             \* state countHandle
  refreshes,               \* the getCount() calls so far, in order
  ops                      \* the incOrDec runs so far, in order

ctrVars == <<mountChain, prevChain, ctrChain, fheCounterRef, ethersSigner,
             ethersReadonlyProvider, fhevmInstance, isRefreshingRef,
             isIncOrDecRef, countHandle, refreshes, ops>>

\* the signature specification: FhevmDecryptionSignature.loadOrSign over a
\* string storage, one call at a time, while the clock advances
VARIABLES
  sigNow,    \* Math.floor(Date.now() / 1000)
  sigStore,  \* the storage: the string kept under each key
  sigCall,   \* the loadOrSign call, finished or under way
  sigCalls   \* loadOrSign calls made so far

sigVars == <<sigNow, sigStore, sigCall, sigCalls>>

NoManager == [set |-> FALSE, chainId |-> 0]

IdleCall ==
  [pc |-> "idle", id |-> 0, reqChain |-> 0, refAtReq |-> FALSE, mgrChain |-> 0,
   hasParams |-> FALSE, net |-> FALSE, err |-> "none", receipt |-> -1,
   tx |-> NoTx]

Finished == {"resolved", "rejected"}

HookInit ==
  /\ walletChain \in Chains
  /\ initPc = "idle"
  /\ chainIdRef = 0
  /\ managerRef = NoManager
  /\ isInitialized = FALSE
  /\ hookError = "none"
  /\ transactions = << >>
  /\ currentTransaction = NoTx
  /\ callCount = 0
  /\ call = IdleCall
  /\ pollPc = "idle"
  /\ pollSnapshot = << >>

(***************************************************************************)
(* hook.initialize(provider, contractAddress)                              *)
(***************************************************************************)
\* the catch block of initialize: metaManagerRef.current is left as it was
InitCatch(msg) ==
  /\ isInitialized' = FALSE
  /\ hookError' = msg
  /\ initPc' = "idle"

\* updateState({isLoading: true, error: null}); await provider.getNetwork()
InitStart ==
  /\ initPc = "idle"
  /\ initPc' = "getNetwork"
  /\ hookError' = "none"
  /\ UNCHANGED <<walletChain, chainIdRef, managerRef, isInitialized,
                 transactions, currentTransaction, callCount, call, pollPc,
                 pollSnapshot>>
  /\ UNCHANGED <<encVars, pairVars, parVars, chainVars, instVars, cacheVars, raceVars, provVars, ctrVars, sigVars>>

\* provider.getNetwork() rejects
InitGetNetworkThrow ==
  /\ initPc = "getNetwork"
  /\ InitCatch("InitFailed")
  /\ UNCHANGED <<walletChain, chainIdRef, managerRef, transactions,
                 currentTransaction, callCount, call, pollPc, pollSnapshot>>
  /\ UNCHANGED <<encVars, pairVars, parVars, chainVars, instVars, cacheVars, raceVars, provVars, ctrVars, sigVars>>

\* getNetwork answered a chain outside the allow-list: throw, caught
InitUnsupported ==
  /\ initPc = "getNetwork"
  /\ ~isNetworkSupported(walletChain)
  /\ chainIdRef' = walletChain
  /\ InitCatch("InitFailedNetworkNotSupported")
  /\ UNCHANGED <<walletChain, managerRef, transactions, currentTransaction,
                 callCount, call, pollPc, pollSnapshot>>
  /\ UNCHANGED <<encVars, pairVars, parVars, chainVars, instVars, cacheVars, raceVars, provVars, ctrVars, sigVars>>

\* getNetwork answered a supported chain: await createFHEVMMetaManager(...)
InitSupported ==
  /\ initPc = "getNetwork"
  /\ isNetworkSupported(walletChain)
  /\ chainIdRef' = walletChain
  /\ initPc' = "creating"
  /\ UNCHANGED <<walletChain, managerRef, isInitialized, hookError,
                 transactions, currentTransaction, callCount, call, pollPc,
                 pollSnapshot>>
  /\ UNCHANGED <<encVars, pairVars, parVars, chainVars, instVars, cacheVars, raceVars, provVars, ctrVars, sigVars>>

\* createFHEVMMetaManager resolved
InitCreated ==
  /\ initPc = "creating"
  /\ managerRef' = [set |-> TRUE, chainId |-> chainIdRef]
  /\ isInitialized' = TRUE
  /\ hookError' = "none"
  /\ initPc' = "idle"
  /\ UNCHANGED <<walletChain, chainIdRef, transactions, currentTransaction,
                 callCount, call, pollPc, pollSnapshot>>
  /\ UNCHANGED <<encVars, pairVars, parVars, chainVars, instVars, cacheVars, raceVars, provVars, ctrVars, sigVars>>

\* createFHEVMMetaManager rejected (manager.initialize rethrows)
InitCreateThrow ==
  /\ initPc = "creating"
  /\ InitCatch("InitFailed")
  /\ UNCHANGED <<walletChain, chainIdRef, managerRef, transactions,
                 currentTransaction, callCount, call, pollPc, pollSnapshot>>
  /\ UNCHANGED <<encVars, pairVars, parVars, chainVars, instVars, cacheVars, raceVars, provVars, ctrVars, sigVars>>

\* the wallet switches to another chain
SwitchChain ==
  /\ \E c \in Chains \ {walletChain} : walletChain' = c
  /\ UNCHANGED <<initPc, chainIdRef, managerRef, isInitialized, hookError,
                 transactions, currentTransaction, callCount, call, pollPc,
                 pollSnapshot>>
  /\ UNCHANGED <<encVars, pairVars, parVars, chainVars, instVars, cacheVars, raceVars, provVars, ctrVars, sigVars>>

(***************************************************************************)
(* hook.executeMetaTransaction and FHEVMMetaManager.executeMetaTransaction *)
(***************************************************************************)
\* the catch block of the hook: the error is stored and rethrown; the
\* transactions list is not touched
HookCatch ==
  /\ hookError' = "TransactionFailed"
  /\ UNCHANGED <<transactions, currentTransaction>>

Reject(c, err) == call' = [c EXCEPT !.pc = "rejected", !.err = err]

\* the caller may make a request
MayStart == call.pc \in Finished \cup {"idle"} /\ callCount < MaxCalls

\* the request is made while metaManagerRef.current is null: thrown before
\* the try block, no state update
ExecNotInitialized ==
  /\ MayStart
  /\ ~managerRef.set
  /\ callCount' = callCount + 1
  /\ call' = [IdleCall EXCEPT !.pc = "rejected", !.id = callCount + 1,
                              !.reqChain = walletChain,
                              !.refAtReq = (chainIdRef = walletChain),
                              !.err = "NotInitialized"]
  /\ UNCHANGED <<walletChain, initPc, chainIdRef, managerRef, isInitialized,
                 hookError, transactions, currentTransaction, pollPc,
                 pollSnapshot>>
  /\ UNCHANGED <<encVars, pairVars, parVars, chainVars, instVars, cacheVars, raceVars, provVars, ctrVars, sigVars>>

\* updateState({isLoading: true, error: null});
\* await metaManagerRef.current.createEncryptedParams(functionName, params)
ExecStart ==
  /\ MayStart
  /\ managerRef.set
  /\ callCount' = callCount + 1
  /\ \E some \in BOOLEAN :
       call' = [IdleCall EXCEPT !.pc = "encrypting", !.id = callCount + 1,
                                !.reqChain = walletChain,
                                !.refAtReq = (chainIdRef = walletChain),
                                !.hasParams = some]
  /\ hookError' = "none"
  /\ UNCHANGED <<walletChain, initPc, chainIdRef, managerRef, isInitialized,
                 transactions, currentTransaction, pollPc, pollSnapshot>>
  /\ UNCHANGED <<encVars, pairVars, parVars, chainVars, instVars, cacheVars, raceVars, provVars, ctrVars, sigVars>>

\* createEncryptedParams resolved; executeMetaTransaction of the manager that
\* metaManagerRef.current holds now starts with await this.provider.getSigner()
\* (line 132).  Each parameter's builder looks the signer up, so parameters
\* mean network calls.
EncryptOk ==
  /\ call.pc = "encrypting"
  /\ call' = [call EXCEPT !.pc = "signer1",
                          !.mgrChain = managerRef.chainId,
                          !.net = call.hasParams]
  /\ UNCHANGED <<walletChain, initPc, chainIdRef, managerRef, isInitialized,
                 hookError, transactions, currentTransaction, callCount,
                 pollPc, pollSnapshot>>
  /\ UNCHANGED <<encVars, pairVars, parVars, chainVars, instVars, cacheVars, raceVars, provVars, ctrVars, sigVars>>

\* createEncryptedParams rejected for some parameter (lines 112-115)
EncryptThrow ==
  /\ call.pc = "encrypting"
  /\ call.hasParams
  /\ Reject([call EXCEPT !.net = TRUE], "EncryptFailed")
  /\ HookCatch
  /\ UNCHANGED <<walletChain, initPc, chainIdRef, managerRef, isInitialized,
                 callCount, pollPc, pollSnapshot>>
  /\ UNCHANGED <<encVars, pairVars, parVars, chainVars, instVars, cacheVars, raceVars, provVars, ctrVars, sigVars>>

\* line 132 resolved: the record is built with status 'pending', then the
\* try block awaits getSigner() again (line 156)
Signer1Ok ==
  /\ call.pc = "signer1"
  /\ call' = [call EXCEPT !.pc = "signer2", !.net = TRUE,
                          !.tx = NewMetaTx(call.id, call.mgrChain)]
  /\ UNCHANGED <<walletChain, initPc, chainIdRef, managerRef, isInitialized,
                 hookError, transactions, currentTransaction, callCount,
                 pollPc, pollSnapshot>>
  /\ UNCHANGED <<encVars, pairVars, parVars, chainVars, instVars, cacheVars, raceVars, provVars, ctrVars, sigVars>>

\* line 132 rejected: outside the try block, no record exists yet
Signer1Throw ==
  /\ call.pc = "signer1"
  /\ Reject([call EXCEPT !.net = TRUE], "SignerFailed")
  /\ HookCatch
  /\ UNCHANGED <<walletChain, initPc, chainIdRef, managerRef, isInitialized,
                 callCount, pollPc, pollSnapshot>>
  /\ UNCHANGED <<encVars, pairVars, parVars, chainVars, instVars, cacheVars, raceVars, provVars, ctrVars, sigVars>>

\* line 156 resolved and the contract has the function: status becomes
\* 'processing' and the transaction is sent (line 186)
Signer2Ok ==
  /\ call.pc = "signer2"
  /\ call' = [call EXCEPT !.pc = "sending", !.tx.status = "processing"]
  /\ UNCHANGED <<walletChain, initPc, chainIdRef, managerRef, isInitialized,
                 hookError, transactions, currentTransaction, callCount,
                 pollPc, pollSnapshot>>
  /\ UNCHANGED <<encVars, pairVars, parVars, chainVars, instVars, cacheVars, raceVars, provVars, ctrVars, sigVars>>

\* a step inside the try block threw at program point pc: the manager's
\* catch sets the status and rethrows, the hook's catch stores the error
ManagerThrow(pc, err) ==
  /\ call.pc = pc
  /\ Reject([call EXCEPT !.tx.status = CatchStatus, !.net = TRUE], err)
  /\ HookCatch
  /\ UNCHANGED <<walletChain, initPc, chainIdRef, managerRef, isInitialized,
                 callCount, pollPc, pollSnapshot>>
  /\ UNCHANGED <<encVars, pairVars, parVars, chainVars, instVars, cacheVars, raceVars, provVars, ctrVars, sigVars>>

\* line 156 rejected
Signer2Throw == ManagerThrow("signer2", "FailedSigner")

\* line 162: the contract has no such function
FunctionMissing == ManagerThrow("signer2", "FailedFunctionNotFound")

\* line 186 resolved: metaTx.txHash = tx.hash; await tx.wait()
SendOk ==
  /\ call.pc = "sending"
  /\ call' = [call EXCEPT !.pc = "waiting", !.tx.txHash = TRUE]
  /\ UNCHANGED <<walletChain, initPc, chainIdRef, managerRef, isInitialized,
                 hookError, transactions, currentTransaction, callCount,
                 pollPc, pollSnapshot>>
  /\ UNCHANGED <<encVars, pairVars, parVars, chainVars, instVars, cacheVars, raceVars, provVars, ctrVars, sigVars>>

\* line 186 rejected
SendThrow == ManagerThrow("sending", "FailedSend")

\* line 192 rejected
WaitThrow == ManagerThrow("waiting", "FailedWait")

\* line 192 resolved with a receipt: the manager returns the record and the
\* hook stores it in front of the transactions its closure sees
WaitReceipt ==
  /\ call.pc = "waiting"
  /\ \E code \in {0, 1} :
       LET done == [call.tx EXCEPT !.status = ReceiptStatus(code),
                                   !.blockNumber = TRUE, !.gasUsed = TRUE]
       IN /\ call' = [call EXCEPT !.pc = "resolved", !.receipt = code,
                                  !.tx = done]
          /\ transactions' = <<done>> \o ClosureTransactions
          /\ currentTransaction' = done
  /\ hookError' = "none"
  /\ UNCHANGED <<walletChain, initPc, chainIdRef, managerRef, isInitialized,
                 callCount, pollPc, pollSnapshot>>
  /\ UNCHANGED <<encVars, pairVars, parVars, chainVars, instVars, cacheVars, raceVars, provVars, ctrVars, sigVars>>

\* clearTransactions
ClearTransactions ==
  /\ transactions' = << >>
  /\ currentTransaction' = NoTx
  /\ UNCHANGED <<walletChain, initPc, chainIdRef, managerRef, isInitialized,
                 hookError, callCount, call, pollPc, pollSnapshot>>
  /\ UNCHANGED <<encVars, pairVars, parVars, chainVars, instVars, cacheVars, raceVars, provVars, ctrVars, sigVars>>

(***************************************************************************)
(* The status polling effect of the hook.                                  *)
(***************************************************************************)
\* an interval tick: updateTransactionStatuses starts on the transactions of
\* the render that installed the interval
PollTick ==
  /\ pollPc = "idle"
  /\ isInitialized
  /\ Len(transactions) > 0
  /\ pollPc' = "querying"
  /\ pollSnapshot' = transactions
  /\ UNCHANGED <<walletChain, initPc, chainIdRef, managerRef, isInitialized,
                 hookError, transactions, currentTransaction, callCount,
                 call>>
  /\ UNCHANGED <<encVars, pairVars, parVars, chainVars, instVars, cacheVars, raceVars, provVars, ctrVars, sigVars>>

PollAnswers == {"confirmed", "unconfirmed", "error"}

\* the entry the map callback returns for tx, given the query's answer
PollEntry(tx, answer) ==
  IF PollSkips(tx) \/ answer = "error"
  THEN tx
  ELSE [tx EXCEPT !.status = PollStatus(tx, answer = "confirmed")]

\* Promise.all resolved: the list is written back only if it differs from
\* the captured one
PollFinish ==
  /\ pollPc = "querying"
  /\ \E answers \in [1..Len(pollSnapshot) -> PollAnswers] :
       LET updated == [k \in 1..Len(pollSnapshot) |->
                         PollEntry(pollSnapshot[k], answers[k])]
       IN transactions' = IF updated # pollSnapshot THEN updated
                          ELSE transactions
  /\ pollPc' = "idle"
  /\ pollSnapshot' = << >>
  /\ UNCHANGED <<walletChain, initPc, chainIdRef, managerRef, isInitialized,
                 hookError, currentTransaction, callCount, call>>
  /\ UNCHANGED <<encVars, pairVars, parVars, chainVars, instVars, cacheVars, raceVars, provVars, ctrVars, sigVars>>

HookNext ==
  \/ InitStart
  \/ InitGetNetworkThrow
  \/ InitUnsupported
  \/ InitSupported
  \/ InitCreated
  \/ InitCreateThrow
  \/ SwitchChain
  \/ ExecNotInitialized
  \/ ExecStart
  \/ EncryptOk
  \/ EncryptThrow
  \/ Signer1Ok
  \/ Signer1Throw
  \/ Signer2Ok
  \/ Signer2Throw
  \/ FunctionMissing
  \/ SendOk
  \/ SendThrow
  \/ WaitThrow
  \/ WaitReceipt
  \/ ClearTransactions
  \/ PollTick
  \/ PollFinish

(***************************************************************************)
(* FHEVMClient: values, byte strings and the ethers helpers the encoders   *)
(* use.                                                                    *)
(***************************************************************************)
\* width of a uint32 in the model, scaled down from the 32 bits of the ABI
Uint32Bits == 3
\* Math.floor(Date.now() / 1000) ranges over 1..MaxTime
MaxTime == 2
\* Math.floor(Math.random() * 1000000) ranges over 0..MaxNonce
MaxNonce == 1

MaxUint32 == 2 ^ Uint32Bits - 1

TimeStamps == 1..MaxTime
Nonces == 0..MaxNonce

\* the numbers a caller passes: negative, zero, small, the largest uint32
\* and one past it
NumValues == {-1, 0, 1, 5, MaxUint32, MaxUint32 + 1}

\* param.value is a number or a boolean
ParamValues ==
  {[kind |-> "num", n |-> v] : v \in NumValues}
    \cup {[kind |-> "bool", n |-> b] : b \in {0, 1}}

ParamTypes == {"euint32", "ebool", "euint64"}

\* Number(x) and Boolean(x) of JavaScript
ToNumber(pv) == pv.n
ToBoolean(pv) == pv.n # 0

ZeroAddress == "0x0000"
SignerAddress == "0xBBBB"
ContractAddress == "0xAAAA"

NoBytes == [kind |-> "none", len |-> 0, data |-> << >>]
NoProof == [kind |-> "none", len |-> 0, types |-> << >>, values |-> << >>]

RECURSIVE ByteLen(_)
\* number of bytes of ethers.toBeHex(v), v >= 0
ByteLen(v) == IF v < 256 THEN 1 ELSE 1 + ByteLen(v \div 256)

\* ethers.zeroPadValue(ethers.toBeHex(v), n) throws for a negative v
\* (toBeHex) and for a value longer than n bytes
ZeroPadThrows(v, n) == v < 0 \/ ByteLen(v) > n

\* ethers.zeroPadValue(ethers.toBeHex(v), n): n bytes
ZeroPadValue(v, n) == [kind |-> "pad", len |-> n, data |-> <<v>>]

\* ethers.keccak256: 32 bytes, taken to be injective in its input
Keccak256(pre) == [kind |-> "keccak", len |-> 32, data |-> pre]

\* AbiCoder.encode of static types: one 32-byte word per value
AbiEncode(types, values) ==
  [kind |-> "abi", len |-> 32 * Len(values), types |-> types,
   values |-> values]

\* the coder rejects a uint32 out of range
Uint32Throws(v) == v < 0 \/ v > MaxUint32

(***************************************************************************)
(* createCompatibleEncryptedInput: the deterministic fallback and, in its  *)
(* catch block, the minimal fallback.                                      *)
(*   a   = [type, value, contract, contractValid]   the arguments          *)
(*   env = [providerIsUrl, signerOk, ts, nonce]     what the run observes  *)
(***************************************************************************)
Resolved(path, handle, proof) ==
  [status |-> "resolved", path |-> path, handle |-> handle, proof |-> proof]

Rejected(path) ==
  [status |-> "rejected", path |-> path, handle |-> NoBytes,
   proof |-> NoProof]

\* lines 508-515
UserAddress(env) == IF env.providerIsUrl THEN ZeroAddress ELSE SignerAddress

\* lines 525-554, type === 'euint32'
CompatUint32(a, env) ==
  LET u == UserAddress(env)
      handleData ==
        Keccak256(<<"FHEVM_EUINT32", a.contract, u, ZeroPadValue(a.value, 32),
                    ZeroPadValue(env.ts, 8), ZeroPadValue(env.nonce, 8)>>)
  IN Resolved("compat", handleData,
       AbiEncode(<<"bytes32", "address", "address", "uint32", "uint256",
                   "bytes32">>,
                 <<handleData, a.contract, u, a.value, env.ts,
                   Keccak256(<<"proof", a.value, env.ts, env.nonce>>)>>))

\* lines 555-581, every other type
CompatBool(a, env) ==
  LET u == UserAddress(env)
      boolValue == IF a.value # 0 THEN 1 ELSE 0
      handleData ==
        Keccak256(<<"FHEVM_EBOOL", a.contract, u, ZeroPadValue(boolValue, 32),
                    ZeroPadValue(env.ts, 8)>>)
  IN Resolved("compat", handleData,
       AbiEncode(<<"bytes32", "address", "address", "bool", "uint256",
                   "bytes32">>,
                 <<handleData, a.contract, u, boolValue, env.ts,
                   Keccak256(<<"bool_proof", boolValue, env.ts>>)>>))

\* what makes the try block of the fallback throw
CompatThrows(a, env) ==
  \/ ~env.providerIsUrl /\ ~env.signerOk
  \/ ~a.contractValid
  \/ ZeroPadThrows(env.ts, 8)
  \/ /\ a.type = "euint32"
     /\ \/ ZeroPadThrows(a.value, 32)
        \/ ZeroPadThrows(env.nonce, 8)
        \/ Uint32Throws(a.value)

\* lines 601-621: the catch block
MinimalFallbackRethrows(a) == Rejected("compat")
MinimalFallback(a) ==
  IF ZeroPadThrows(a.value, 32) \/ ~a.contractValid
  THEN Rejected("minimal")
  ELSE Resolved("minimal", ZeroPadValue(a.value, 32),
                AbiEncode(<<"uint256", "address">>, <<a.value, a.contract>>))

\* lines 499-622
createCompatibleEncryptedInput(a, env) ==
  IF CompatThrows(a, env) THEN MinimalFallback(a)
  ELSE IF a.type = "euint32" THEN CompatUint32(a, env)
  ELSE CompatBool(a, env)

(***************************************************************************)
(* The primary path of createEncryptedInput.                               *)
(***************************************************************************)
\* lines 443-450: what the input session is given for a type
EngineAdds(type, value) ==
  IF type = "euint32" THEN <<[accessor |-> "add32", v |-> value]>>
  ELSE IF type = "ebool"
       THEN <<[accessor |-> "addBool", v |-> IF value # 0 THEN 1 ELSE 0]>>
       ELSE << >>

\* encrypted.handles[0] and encrypted.inputProof as the engine returns them:
\* missing, a hex string, or a byte array
EngineKinds == {"missing", "hex", "bytes"}

\* lines 461-471: handle?.substring(...) on a value that is not a string
LoggingThrows(h, p) == h = "bytes" \/ p = "bytes"

\* line 473: !handle || !proof
ResultMissingHandleOnly(h, p) == h = "missing"
ResultMissing(h, p) == h = "missing" \/ p = "missing"

\* the engine's handles are bytes32, its proof is not empty
EngineHandle(h) ==
  IF h = "missing" THEN NoBytes
  ELSE [kind |-> "engine", len |-> 32, data |-> << >>]
EngineProof(p) ==
  IF p = "missing" THEN NoProof
  ELSE [kind |-> "engine", len |-> 1, types |-> << >>, values |-> << >>]

\* line 424: the condition of the primary path
UsesPrimary(client) == client.chainId = SEPOLIA /\ client.hasInstance

\* lines 490-495: the outer catch goes on with the fallback encoder
PrimaryCatchRethrows(err) == "rethrow"
PrimaryCatch(err) == "compat"

\* FHEVMMetaManager.createEncryptedParams, lines 90-101: the call made for
\* one parameter
ParamDispatch(param) ==
  IF param.type = "ebool"
  THEN [value |-> IF ToBoolean(param.value) THEN 1 ELSE 0, type |-> "ebool"]
  ELSE [value |-> ToNumber(param.value), type |-> param.type]


(***************************************************************************)
(* The builder specification: one FHEVMClient, called once per parameter   *)
(* by createEncryptedParams.                                               *)
(***************************************************************************)

Clients ==
  [chainId : Chains, hasInstance : BOOLEAN, providerIsUrl : BOOLEAN,
   contractValid : BOOLEAN]

Params == [value : ParamValues, type : ParamTypes]

NoParam == [value |-> [kind |-> "num", n |-> 0], type |-> "none"]
NoArgs == [type |-> "none", value |-> 0, contract |-> ContractAddress,
           contractValid |-> TRUE]
NoOutcome == [status |-> "none", path |-> "none", handle |-> NoBytes,
              proof |-> NoProof]

EncBlank ==
  /\ encParam = NoParam
  /\ encArgs = NoArgs
  /\ encPc = "idle"
  /\ encAdded = << >>
  /\ encPrimaryErr = "none"
  /\ encOutcome = NoOutcome

EncInit ==
  /\ encClient \in Clients
  /\ EncBlank

\* createEncryptedParams calls the builder for a parameter; line 424 picks
\* the path
EncCall ==
  /\ encPc = "idle"
  /\ \E param \in Params :
       LET d == ParamDispatch(param)
       IN /\ encParam' = param
          /\ encArgs' = [type |-> d.type, value |-> d.value,
                         contract |-> ContractAddress,
                         contractValid |-> encClient.contractValid]
  /\ encPc' = IF UsesPrimary(encClient)
              THEN IF encClient.providerIsUrl THEN "session"
                   ELSE "primarySigner"
              ELSE "compat"
  /\ encAdded' = << >>
  /\ encPrimaryErr' = "none"
  /\ encOutcome' = NoOutcome
  /\ UNCHANGED encClient
  /\ UNCHANGED <<hookVars, pairVars, parVars, chainVars, instVars, cacheVars, raceVars, provVars, ctrVars, sigVars>>

\* the primary path ended with err: the outer catch
EncCatch(err) ==
  /\ encPrimaryErr' = err
  /\ IF PrimaryCatch(err) = "compat"
     THEN encPc' = "compat" /\ encOutcome' = encOutcome
     ELSE encPc' = "done" /\ encOutcome' = Rejected("primary")

\* lines 431-432 resolved
EncPrimarySignerOk ==
  /\ encPc = "primarySigner"
  /\ encPc' = "session"
  /\ UNCHANGED <<encClient, encParam, encArgs, encAdded, encPrimaryErr,
                 encOutcome>>
  /\ UNCHANGED <<hookVars, pairVars, parVars, chainVars, instVars, cacheVars, raceVars, provVars, ctrVars, sigVars>>

\* lines 431-432 rejected
EncPrimarySignerThrow ==
  /\ encPc = "primarySigner"
  /\ EncCatch("signer")
  /\ UNCHANGED <<encClient, encParam, encArgs, encAdded>>
  /\ UNCHANGED <<hookVars, pairVars, parVars, chainVars, instVars, cacheVars, raceVars, provVars, ctrVars, sigVars>>

\* the engine's createEncryptedInput or add accessor throws
EncSessionThrow ==
  /\ encPc = "session"
  /\ EncCatch("sdk")
  /\ UNCHANGED <<encClient, encParam, encArgs, encAdded>>
  /\ UNCHANGED <<hookVars, pairVars, parVars, chainVars, instVars, cacheVars, raceVars, provVars, ctrVars, sigVars>>

\* lines 439-454: the session is opened, the value added, encrypt() awaited
EncSessionAdd ==
  /\ encPc = "session"
  /\ encAdded' = EngineAdds(encArgs.type, encArgs.value)
  /\ encPc' = "encrypt"
  /\ UNCHANGED <<encClient, encParam, encArgs, encPrimaryErr, encOutcome>>
  /\ UNCHANGED <<hookVars, pairVars, parVars, chainVars, instVars, cacheVars, raceVars, provVars, ctrVars, sigVars>>

\* encrypt() rejected
EncEngineThrow ==
  /\ encPc = "encrypt"
  /\ EncCatch("sdk")
  /\ UNCHANGED <<encClient, encParam, encArgs, encAdded>>
  /\ UNCHANGED <<hookVars, pairVars, parVars, chainVars, instVars, cacheVars, raceVars, provVars, ctrVars, sigVars>>

\* encrypt() resolved, but the result is logged with a string method it
\* lacks, or has no handle or no proof
EncEngineBadResult ==
  /\ encPc = "encrypt"
  /\ \E h \in EngineKinds, p \in EngineKinds :
       /\ LoggingThrows(h, p) \/ ResultMissing(h, p)
       /\ EncCatch(IF LoggingThrows(h, p) THEN "sdk" ELSE "missing")
  /\ UNCHANGED <<encClient, encParam, encArgs, encAdded>>
  /\ UNCHANGED <<hookVars, pairVars, parVars, chainVars, instVars, cacheVars, raceVars, provVars, ctrVars, sigVars>>

\* encrypt() resolved and the result passes the check of line 473
EncEngineResult ==
  /\ encPc = "encrypt"
  /\ \E h \in EngineKinds, p \in EngineKinds :
       /\ ~LoggingThrows(h, p)
       /\ ~ResultMissing(h, p)
       /\ encOutcome' = Resolved("primary", EngineHandle(h), EngineProof(p))
  /\ encPc' = "done"
  /\ UNCHANGED <<encClient, encParam, encArgs, encAdded, encPrimaryErr>>
  /\ UNCHANGED <<hookVars, pairVars, parVars, chainVars, instVars, cacheVars, raceVars, provVars, ctrVars, sigVars>>

\* lines 488 and 494: return await this.createCompatibleEncryptedInput(...)
EncCompat ==
  /\ encPc = "compat"
  /\ \E ok \in BOOLEAN, ts \in TimeStamps, nonce \in Nonces :
       encOutcome' = createCompatibleEncryptedInput(encArgs,
                       [providerIsUrl |-> encClient.providerIsUrl,
                        signerOk |-> ok, ts |-> ts, nonce |-> nonce])
  /\ encPc' = "done"
  /\ UNCHANGED <<encClient, encParam, encArgs, encAdded, encPrimaryErr>>
  /\ UNCHANGED <<hookVars, pairVars, parVars, chainVars, instVars, cacheVars, raceVars, provVars, ctrVars, sigVars>>

\* the caller has taken the result; the client is ready for the next call
EncReturn ==
  /\ encPc = "done"
  /\ encParam' = NoParam
  /\ encArgs' = NoArgs
  /\ encPc' = "idle"
  /\ encAdded' = << >>
  /\ encPrimaryErr' = "none"
  /\ encOutcome' = NoOutcome
  /\ UNCHANGED encClient
  /\ UNCHANGED <<hookVars, pairVars, parVars, chainVars, instVars, cacheVars, raceVars, provVars, ctrVars, sigVars>>

EncNext ==
  \/ EncCall
  \/ EncPrimarySignerOk
  \/ EncPrimarySignerThrow
  \/ EncSessionThrow
  \/ EncSessionAdd
  \/ EncEngineThrow
  \/ EncEngineBadResult
  \/ EncEngineResult
  \/ EncCompat
  \/ EncReturn

(***************************************************************************)
(* The pair specification: the fallback encoder run twice on the same      *)
(* arguments.                                                              *)
(***************************************************************************)

PairBlank ==
  /\ pairArgs = NoArgs
  /\ pairIsUrl = FALSE
  /\ pairRuns = << >>

PairInit ==
  /\ pairArgs \in [type : {"euint32", "ebool"},
                   value : {v \in NumValues : v >= 0},
                   contract : {ContractAddress}, contractValid : BOOLEAN]
  /\ pairIsUrl \in BOOLEAN
  /\ pairRuns = << >>

\* one run of createCompatibleEncryptedInput
PairRun ==
  /\ Len(pairRuns) < 2
  /\ \E ok \in BOOLEAN, ts \in TimeStamps, nonce \in Nonces :
       pairRuns' = Append(pairRuns,
         [ts |-> ts, nonce |-> nonce,
          out |-> createCompatibleEncryptedInput(pairArgs,
                    [providerIsUrl |-> pairIsUrl, signerOk |-> ok,
                     ts |-> ts, nonce |-> nonce])])
  /\ UNCHANGED <<pairArgs, pairIsUrl>>
  /\ UNCHANGED <<hookVars, encVars, parVars, chainVars, instVars, cacheVars, raceVars, provVars, ctrVars, sigVars>>

PairNext == PairRun

(***************************************************************************)
(* The parameter specification: FHEVMMetaManager.createEncryptedParams     *)
(* over a declared parameter list, and the argument list that              *)
(* executeMetaTransaction builds from its result.                          *)
(***************************************************************************)
\* number of parameters a caller declares
MaxParams == 2

\* the parameters a caller declares: a number, a number the encoders
\* reject, a boolean and a 64-bit number
ParamChoices ==
  {[value |-> [kind |-> "num", n |-> 5], type |-> "euint32"],
   [value |-> [kind |-> "num", n |-> -1], type |-> "euint32"],
   [value |-> [kind |-> "bool", n |-> 1], type |-> "ebool"],
   [value |-> [kind |-> "num", n |-> 5], type |-> "euint64"]}

\* the manager hands its BrowserProvider to createFHEVMClient (line 52)
ParClients == {c \in Clients : ~c.providerIsUrl}

\* createEncryptedInput as createEncryptedParams sees it: every way the call
\* for these arguments can end
BuilderOutcomes(client, a) ==
  LET fallback ==
        {createCompatibleEncryptedInput(a, env) :
           env \in [providerIsUrl : {client.providerIsUrl},
                    signerOk : BOOLEAN, ts : TimeStamps, nonce : Nonces]}
  IN IF UsesPrimary(client)
     THEN {Resolved("primary", EngineHandle("hex"), EngineProof("hex"))}
            \cup fallback
     ELSE fallback

\* lines 103-109: the element pushed for a parameter
EncryptedParameter(param, out) ==
  [name |-> param.name, type |-> param.type, handle |-> out.handle,
   proof |-> out.proof, originalValue |-> param.value]

\* lines 112-115: the catch inside the loop throws a new Error
ParamCatchContinues == "continue"
ParamCatch == "rethrow"

\* line 169: param.type === 'ebool' || param.type.startsWith('euint')
PassesOnlyKnownTypes(type) == type \in {"ebool", "euint32"}
PassesHandleAndProof(type) ==
  type = "ebool" \/ type \in {"euint32", "euint64"}

RECURSIVE TxParams(_)
\* lines 167-174: txParams
TxParams(eps) ==
  IF eps = << >> THEN << >>
  ELSE (IF PassesHandleAndProof(Head(eps).type)
        THEN <<Head(eps).handle, Head(eps).proof>>
        ELSE << >>) \o TxParams(Tail(eps))

NotReturned == [given |-> FALSE, list |-> << >>]

ParBlank ==
  /\ parReady = FALSE
  /\ parClient = [chainId |-> SEPOLIA, hasInstance |-> FALSE,
                  providerIsUrl |-> FALSE, contractValid |-> TRUE]
  /\ parParams = << >>
  /\ parPc = "idle"
  /\ parIndex = 0
  /\ parLog = << >>
  /\ parEncrypted = << >>
  /\ parReturned = NotReturned
  /\ parTxArgs = << >>

ParInit ==
  /\ parReady \in BOOLEAN
  /\ parClient \in ParClients
  /\ \E n \in 0..MaxParams :
       \E f \in [1..n -> ParamChoices] :
         parParams = [i \in 1..n |->
                        [name |-> i, value |-> f[i].value,
                         type |-> f[i].type]]
  /\ parPc = "idle"
  /\ parIndex = 0
  /\ parLog = << >>
  /\ parEncrypted = << >>
  /\ parReturned = NotReturned
  /\ parTxArgs = << >>

\* lines 77-79
ParCallNotInitialized ==
  /\ parPc = "idle"
  /\ ~parReady
  /\ parPc' = "rejected"
  /\ UNCHANGED <<parReady, parClient, parParams, parIndex, parLog,
                 parEncrypted, parReturned, parTxArgs>>
  /\ UNCHANGED <<hookVars, encVars, pairVars, chainVars, instVars, cacheVars, raceVars, provVars, ctrVars, sigVars>>

\* lines 81-85
ParCallStart ==
  /\ parPc = "idle"
  /\ parReady
  /\ parPc' = "loop"
  /\ parIndex' = 1
  /\ parEncrypted' = << >>
  /\ UNCHANGED <<parReady, parClient, parParams, parLog, parReturned,
                 parTxArgs>>
  /\ UNCHANGED <<hookVars, encVars, pairVars, chainVars, instVars, cacheVars, raceVars, provVars, ctrVars, sigVars>>

\* lines 85-101: the loop reaches a parameter and awaits the builder
ParBuilderCall ==
  /\ parPc = "loop"
  /\ parIndex <= Len(parParams)
  /\ parLog' = Append(parLog, [ev |-> "start", i |-> parIndex,
                               out |-> NoOutcome])
  /\ parPc' = "building"
  /\ UNCHANGED <<parReady, parClient, parParams, parIndex, parEncrypted,
                 parReturned, parTxArgs>>
  /\ UNCHANGED <<hookVars, encVars, pairVars, chainVars, instVars, cacheVars, raceVars, provVars, ctrVars, sigVars>>

\* the arguments of the builder call for the parameter the loop is at
ParArgs ==
  LET d == ParamDispatch(parParams[parIndex])
  IN [type |-> d.type, value |-> d.value, contract |-> ContractAddress,
      contractValid |-> parClient.contractValid]

\* lines 103-111: the builder resolved
ParBuilderResolve ==
  /\ parPc = "building"
  /\ \E out \in BuilderOutcomes(parClient, ParArgs) :
       /\ out.status = "resolved"
       /\ parLog' = Append(parLog, [ev |-> "end", i |-> parIndex,
                                    out |-> out])
       /\ parEncrypted' =
            Append(parEncrypted,
                   EncryptedParameter(parParams[parIndex], out))
  /\ parIndex' = parIndex + 1
  /\ parPc' = "loop"
  /\ UNCHANGED <<parReady, parClient, parParams, parReturned, parTxArgs>>
  /\ UNCHANGED <<hookVars, encVars, pairVars, chainVars, instVars, cacheVars, raceVars, provVars, ctrVars, sigVars>>

\* lines 112-115: the builder rejected
ParBuilderReject ==
  /\ parPc = "building"
  /\ \E out \in BuilderOutcomes(parClient, ParArgs) :
       /\ out.status = "rejected"
       /\ parLog' = Append(parLog, [ev |-> "fail", i |-> parIndex,
                                    out |-> out])
  /\ IF ParamCatch = "rethrow"
     THEN parPc' = "rejected" /\ parIndex' = parIndex
     ELSE parPc' = "loop" /\ parIndex' = parIndex + 1
  /\ UNCHANGED <<parReady, parClient, parParams, parEncrypted, parReturned,
                 parTxArgs>>
  /\ UNCHANGED <<hookVars, encVars, pairVars, chainVars, instVars, cacheVars, raceVars, provVars, ctrVars, sigVars>>

\* lines 118-119
ParReturn ==
  /\ parPc = "loop"
  /\ parIndex > Len(parParams)
  /\ parReturned' = [given |-> TRUE, list |-> parEncrypted]
  /\ parPc' = "resolved"
  /\ UNCHANGED <<parReady, parClient, parParams, parIndex, parLog,
                 parEncrypted, parTxArgs>>
  /\ UNCHANGED <<hookVars, encVars, pairVars, chainVars, instVars, cacheVars, raceVars, provVars, ctrVars, sigVars>>

\* executeMetaTransaction is given the list (hook lines 108-117) and calls
\* contract[functionName](...txParams), lines 166-186
ExecSend ==
  /\ parPc = "resolved"
  /\ parTxArgs' = TxParams(parReturned.list)
  /\ parPc' = "sent"
  /\ UNCHANGED <<parReady, parClient, parParams, parIndex, parLog,
                 parEncrypted, parReturned>>
  /\ UNCHANGED <<hookVars, encVars, pairVars, chainVars, instVars, cacheVars, raceVars, provVars, ctrVars, sigVars>>

ParNext ==
  \/ ParCallNotInitialized
  \/ ParCallStart
  \/ ParBuilderCall
  \/ ParBuilderResolve
  \/ ParBuilderReject
  \/ ParReturn
  \/ ExecSend

(***************************************************************************)
(* The chain specification: the manager's reads against the chain          *)
(* (verifyTransaction, getTransactionStatus) for one transaction hash      *)
(* while the chain advances, and the static network queries.               *)
(***************************************************************************)
\* blocks the chain mines
MaxHeight == 3

\* a value or null
Null == << >>
Some(v) == <<v>>

\* bigint.toString()
BigIntToString(n) == [str |-> n]

\* provider.getTransactionReceipt(txHash) of a hash that is not mined: null
NoReceipt ==
  [mined |-> FALSE, blockNumber |-> 0, gasUsed |-> 0, status |-> 0,
   to |-> Null]

\* receipt.to is null for a contract creation
Receipts(height) ==
  [mined : {TRUE}, blockNumber : {height}, gasUsed : {21},
   status : {0, 1}, to : {Null, Some(ContractAddress)}]

\* the chain ids the static query is asked about
QueryChains == Chains \cup {0, HARDHAT + 1, SEPOLIA - 1}

NoRead == [read |-> "no", r |-> NoReceipt]
NoAnswer == [status |-> "none", value |-> << >>]

\* lines 234-240 and 255-261
VerifyInvalid ==
  [isValid |-> FALSE, blockNumber |-> Null, gasUsed |-> Null,
   status |-> Null, contractAddress |-> Null]

\* lines 233-252
VerifyResult(receipt) ==
  IF ~receipt.mined THEN VerifyInvalid
  ELSE [isValid |-> TRUE, blockNumber |-> Some(receipt.blockNumber),
        gasUsed |-> Some(BigIntToString(receipt.gasUsed)),
        status |-> Some(receipt.status), contractAddress |-> receipt.to]

\* lines 253-262: the catch returns the invalid result
VerifyCatchRethrows == [status |-> "rejected", value |-> << >>]
VerifyCatch == [status |-> "resolved", value |-> VerifyInvalid]

\* line 288
StatusConfirmedAtDepth(receipt, currentBlock) ==
  receipt.status = 1 /\ currentBlock - receipt.blockNumber >= 1
StatusConfirmed(receipt, currentBlock) == receipt.status = 1

\* lines 278-292
StatusResult(receipt, currentBlock) ==
  IF ~receipt.mined
  THEN [confirmed |-> FALSE, blockNumber |-> Null, confirmations |-> 0,
        gasUsed |-> Null]
  ELSE [confirmed |-> StatusConfirmed(receipt, currentBlock),
        blockNumber |-> Some(receipt.blockNumber),
        confirmations |-> currentBlock - receipt.blockNumber,
        gasUsed |-> Some(BigIntToString(receipt.gasUsed))]

ChainBlank ==
  /\ chHeight = 0
  /\ chReceipt = NoReceipt
  /\ qKind = "none"
  /\ qPc = "idle"
  /\ qRead = NoRead
  /\ qHeight = -1
  /\ qChain = 0
  /\ qOutcome = NoAnswer

ChainInit == ChainBlank

\* the chain mines a block without the transaction
ChainMineBlock ==
  /\ chHeight < MaxHeight
  /\ chHeight' = chHeight + 1
  /\ UNCHANGED <<chReceipt, qKind, qPc, qRead, qHeight, qChain, qOutcome>>
  /\ UNCHANGED <<hookVars, encVars, pairVars, parVars, instVars, cacheVars, raceVars, provVars, ctrVars, sigVars>>

\* the chain mines the block that contains the transaction
ChainMineTx ==
  /\ chHeight < MaxHeight
  /\ ~chReceipt.mined
  /\ chHeight' = chHeight + 1
  /\ chReceipt' \in Receipts(chHeight + 1)
  /\ UNCHANGED <<qKind, qPc, qRead, qHeight, qChain, qOutcome>>
  /\ UNCHANGED <<hookVars, encVars, pairVars, parVars, instVars, cacheVars, raceVars, provVars, ctrVars, sigVars>>

\* a query starts: kind is the method called
QueryStart(kind) ==
  /\ qPc = "idle"
  /\ qKind' = kind
  /\ qPc' = "reading"
  /\ qRead' = NoRead
  /\ qHeight' = -1
  /\ qOutcome' = NoAnswer

\* lines 229-232
VerifyCall ==
  /\ QueryStart("verify")
  /\ UNCHANGED <<chHeight, chReceipt, qChain>>
  /\ UNCHANGED <<hookVars, encVars, pairVars, parVars, instVars, cacheVars, raceVars, provVars, ctrVars, sigVars>>

\* lines 232-252: getTransactionReceipt resolved
VerifyReceiptAnswer ==
  /\ qKind = "verify"
  /\ qPc = "reading"
  /\ qRead' = [read |-> "yes", r |-> chReceipt]
  /\ qOutcome' = [status |-> "resolved", value |-> VerifyResult(chReceipt)]
  /\ qPc' = "done"
  /\ UNCHANGED <<chHeight, chReceipt, qKind, qHeight, qChain>>
  /\ UNCHANGED <<hookVars, encVars, pairVars, parVars, instVars, cacheVars, raceVars, provVars, ctrVars, sigVars>>

\* lines 253-262: getTransactionReceipt rejected
VerifyReceiptThrow ==
  /\ qKind = "verify"
  /\ qPc = "reading"
  /\ qRead' = [read |-> "threw", r |-> NoReceipt]
  /\ qOutcome' = VerifyCatch
  /\ qPc' = "done"
  /\ UNCHANGED <<chHeight, chReceipt, qKind, qHeight, qChain>>
  /\ UNCHANGED <<hookVars, encVars, pairVars, parVars, instVars, cacheVars, raceVars, provVars, ctrVars, sigVars>>

\* lines 272-276: both reads are issued
StatusCall ==
  /\ QueryStart("status")
  /\ UNCHANGED <<chHeight, chReceipt, qChain>>
  /\ UNCHANGED <<hookVars, encVars, pairVars, parVars, instVars, cacheVars, raceVars, provVars, ctrVars, sigVars>>

\* line 274 answered
StatusReceiptAnswer ==
  /\ qKind = "status"
  /\ qPc = "reading"
  /\ qRead.read = "no"
  /\ qRead' = [read |-> "yes", r |-> chReceipt]
  /\ UNCHANGED <<chHeight, chReceipt, qKind, qPc, qHeight, qChain, qOutcome>>
  /\ UNCHANGED <<hookVars, encVars, pairVars, parVars, instVars, cacheVars, raceVars, provVars, ctrVars, sigVars>>

\* line 275 answered
StatusHeightAnswer ==
  /\ qKind = "status"
  /\ qPc = "reading"
  /\ qHeight = -1
  /\ qHeight' = chHeight
  /\ UNCHANGED <<chHeight, chReceipt, qKind, qPc, qRead, qChain, qOutcome>>
  /\ UNCHANGED <<hookVars, encVars, pairVars, parVars, instVars, cacheVars, raceVars, provVars, ctrVars, sigVars>>

\* lines 293-296: one of the reads rejected, the error is thrown on
StatusReadThrow ==
  /\ qKind = "status"
  /\ qPc = "reading"
  /\ qRead.read = "no" \/ qHeight = -1
  /\ qOutcome' = [status |-> "rejected", value |-> << >>]
  /\ qPc' = "done"
  /\ UNCHANGED <<chHeight, chReceipt, qKind, qRead, qHeight, qChain>>
  /\ UNCHANGED <<hookVars, encVars, pairVars, parVars, instVars, cacheVars, raceVars, provVars, ctrVars, sigVars>>

\* lines 278-292: both reads answered
StatusReturn ==
  /\ qKind = "status"
  /\ qPc = "reading"
  /\ qRead.read = "yes"
  /\ qHeight # -1
  /\ qOutcome' = [status |-> "resolved",
                  value |-> StatusResult(qRead.r, qHeight)]
  /\ qPc' = "done"
  /\ UNCHANGED <<chHeight, chReceipt, qKind, qRead, qHeight, qChain>>
  /\ UNCHANGED <<hookVars, encVars, pairVars, parVars, instVars, cacheVars, raceVars, provVars, ctrVars, sigVars>>

\* lines 342-344
NetworkQuery ==
  /\ qPc = "idle"
  /\ \E chainId \in QueryChains :
       /\ qChain' = chainId
       /\ qOutcome' = [status |-> "resolved",
                       value |-> [supported |-> isNetworkSupported(chainId)]]
  /\ qKind' = "network"
  /\ qPc' = "done"
  /\ qRead' = NoRead
  /\ qHeight' = -1
  /\ UNCHANGED <<chHeight, chReceipt>>
  /\ UNCHANGED <<hookVars, encVars, pairVars, parVars, instVars, cacheVars, raceVars, provVars, ctrVars, sigVars>>

\* the caller has the answer and may ask again
QueryReset ==
  /\ qPc = "done"
  /\ qKind' = "none"
  /\ qPc' = "idle"
  /\ qRead' = NoRead
  /\ qHeight' = -1
  /\ qChain' = 0
  /\ qOutcome' = NoAnswer
  /\ UNCHANGED <<chHeight, chReceipt>>
  /\ UNCHANGED <<hookVars, encVars, pairVars, parVars, instVars, cacheVars, raceVars, provVars, ctrVars, sigVars>>

ChainNext ==
  \/ ChainMineBlock
  \/ ChainMineTx
  \/ VerifyCall
  \/ VerifyReceiptAnswer
  \/ VerifyReceiptThrow
  \/ StatusCall
  \/ StatusReceiptAnswer
  \/ StatusHeightAnswer
  \/ StatusReadThrow
  \/ StatusReturn
  \/ NetworkQuery
  \/ QueryReset

(***************************************************************************)
(* The factory specification: RelayerSDKLoader.load, the key-material      *)
(* cache, createFhevmInstance and its callers FHEVMClient.initialize,      *)
(* createFHEVMClient and FHEVMMetaManager.initialize.  load() is called by *)
(* the factory and by other callers of the page; one createFhevmInstance   *)
(* call runs at a time.                                                    *)
(***************************************************************************)
\* load() calls other callers make
MaxLoads == 2
\* createFhevmInstance calls, one after the other
MaxInstCalls == 2

\* window.relayerSDK: absent, or an object with some of the capabilities
NoSdk ==
  [present |-> FALSE, initSDK |-> FALSE, createInstance |-> FALSE,
   config |-> FALSE, aclValid |-> FALSE, initialized |-> FALSE]

ValidSdk ==
  [present |-> TRUE, initSDK |-> TRUE, createInstance |-> TRUE,
   config |-> TRUE, aclValid |-> TRUE, initialized |-> FALSE]

\* what the page can find under window.relayerSDK once a script defined it:
\* a complete engine (initialised or not), or one that lacks initSDK,
\* createInstance or SepoliaConfig, or whose SepoliaConfig has an invalid
\* aclContractAddress
EngineShapes ==
  {ValidSdk,
   [ValidSdk EXCEPT !.initialized = TRUE],
   [ValidSdk EXCEPT !.initSDK = FALSE],
   [ValidSdk EXCEPT !.createInstance = FALSE],
   [ValidSdk EXCEPT !.config = FALSE, !.aclValid = FALSE],
   [ValidSdk EXCEPT !.aclValid = FALSE]}

\* lines 103-138
isFhevmRelayerSDKType(o) ==
  o.present /\ o.initSDK /\ o.createInstance /\ o.config

\* lines 140-161
isValidRelayerSDK(o) == o.present /\ isFhevmRelayerSDKType(o)

\* lines 45-51: "relayerSDK" in window
LoadPresentReloads(o) == "inject"
LoadPresent(o) == IF isFhevmRelayerSDKType(o) THEN "resolved" ELSE "threw"

\* lines 57-67: a script element with the CDN url is in the document
LoadExisting(o) == IF ~isValidRelayerSDK(o) THEN "rejected" ELSE "resolved"

\* lines 36-99, up to the point where the promise is returned
LoadSyncIgnoresExisting(o, elems) ==
  IF o.present THEN LoadPresent(o) ELSE "inject"
LoadSync(o, elems) ==
  IF o.present THEN LoadPresent(o)
  ELSE IF Len(elems) > 0 THEN LoadExisting(o)
  ELSE "inject"

\* lines 74-84: script.onload
LoadOnload(o) == IF ~isValidRelayerSDK(o) THEN "rejected" ELSE "resolved"

NoLoad ==
  [by |-> "none", outcome |-> "none", inFlightAtCall |-> FALSE,
   failedAtCall |-> FALSE, sdk |-> NoSdk]

\* the stored key material of the ACL address: the writer of each field,
\* 0 while the field is not stored
NoKeys == [publicKey |-> 0, publicParams |-> 0]

\* the mockChains arguments callers pass: none, or a chain of their own
MockChainChoices == {{}, {1}}

\* lines 706-709: 31337 and the caller's chains; every entry carries the
\* url of a node
MockChainsTable(mockChains) == {HARDHAT} \cup mockChains

\* lines 711-714: isMock && rpcUrl, the url of an entry being non-empty
isMockHardhatOnly(chainId, mockChains) == chainId = HARDHAT
isMock(chainId, mockChains) == chainId \in MockChainsTable(mockChains)

\* line 693
throwIfAborted(c) == c.aborted

IdleInst ==
  [pc |-> "idle", kind |-> "none", chain |-> 0, mockChains |-> {},
   aborted |-> FALSE, load |-> "none", cacheBefore |-> NoKeys,
   cacheRead |-> FALSE, getFailed |-> FALSE, cached |-> NoKeys,
   created |-> FALSE,
   outcome |-> "none", err |-> "none", clientHasInstance |-> FALSE,
   managerOutcome |-> "none", managerInitialized |-> FALSE]

\* FHEVMClient.initialize lines 368-372: the catch keeps the client usable
ClientInitializeCatch == "swallow"

\* how a createFhevmInstance call ends, and with it, for a call made through
\* FHEVMClient.initialize, createFHEVMClient and FHEVMMetaManager.initialize
Finish(c, outcome, err) ==
  LET ok == outcome \in {"instance", "mock"}
      surfaced == ~ok /\ ClientInitializeCatch # "swallow"
  IN [c EXCEPT !.pc = "done", !.outcome = outcome, !.err = err,
               !.clientHasInstance = (c.kind = "client" /\ ok),
               !.managerOutcome =
                  IF c.kind # "client" THEN "none"
                  ELSE IF surfaced THEN "rejected" ELSE "resolved",
               !.managerInitialized = (c.kind = "client" /\ ~surfaced)]

InstBlank ==
  /\ winSdk = NoSdk
  /\ scripts = << >>
  /\ injector = NoLoad
  /\ lastLoad = NoLoad
  /\ loadCount = 0
  /\ keyCache = NoKeys
  /\ initCalls = 0
  /\ inst = IdleInst
  /\ instCount = 0

\* the page may already hold an engine when the first call is made
InstInit ==
  /\ winSdk \in EngineShapes \cup {NoSdk}
  /\ scripts = << >>
  /\ injector = NoLoad
  /\ lastLoad = NoLoad
  /\ loadCount = 0
  /\ keyCache = NoKeys
  /\ initCalls = 0
  /\ inst = IdleInst
  /\ instCount = 0

\* a script is being fetched and the engine is not defined yet
ScriptInFlight ==
  /\ ~winSdk.present
  /\ \E k \in 1..Len(scripts) : scripts[k] = "loading"

\* an earlier fetch of the script failed, no fetch is under way and the
\* engine is not defined
FetchFailed ==
  /\ ~winSdk.present
  /\ \E k \in 1..Len(scripts) : scripts[k] = "error"
  /\ \A k \in 1..Len(scripts) : scripts[k] # "loading"

\* load() called by `by': everything up to the returned promise
LoadCallEffect(by) ==
  LET r == LoadSync(winSdk, scripts)
      rec == [by |-> by, outcome |-> IF r = "inject" THEN "waiting" ELSE r,
              inFlightAtCall |-> ScriptInFlight,
              failedAtCall |-> FetchFailed, sdk |-> winSdk]
  IN /\ lastLoad' = rec
     /\ IF r = "inject"
        THEN /\ scripts' = Append(scripts, "loading")
             /\ injector' = rec
        ELSE UNCHANGED <<scripts, injector>>

\* load() called by another caller of the page
LoadCall ==
  /\ loadCount < MaxLoads
  /\ loadCount' = loadCount + 1
  /\ LoadCallEffect("caller")
  /\ UNCHANGED <<winSdk, keyCache, initCalls, inst, instCount>>
  /\ UNCHANGED <<hookVars, encVars, pairVars, parVars, chainVars, cacheVars, raceVars, provVars, ctrVars, sigVars>>

\* the promise of the load() call that injected script k settles
InjectorSettles(k, outcome, sdk) ==
  /\ injector' = IF injector.outcome = "waiting"
                 THEN [injector EXCEPT !.outcome = outcome, !.sdk = sdk]
                 ELSE injector
  /\ lastLoad' = IF lastLoad.outcome = "waiting"
                 THEN [lastLoad EXCEPT !.outcome = outcome, !.sdk = sdk]
                 ELSE lastLoad
  /\ inst' = IF inst.pc = "loading" /\ inst.load = "waiting"
             THEN [inst EXCEPT !.load = outcome]
             ELSE inst

\* the script has run: it defined window.relayerSDK, or did not; lines 74-84
ScriptLoaded ==
  /\ \E k \in 1..Len(scripts) :
       /\ scripts[k] = "loading"
       /\ scripts' = [scripts EXCEPT ![k] = "loaded"]
       /\ \E sdk \in EngineShapes \cup {NoSdk} :
            /\ winSdk' = sdk
            /\ InjectorSettles(k, LoadOnload(sdk), sdk)
  /\ UNCHANGED <<loadCount, keyCache, initCalls, instCount>>
  /\ UNCHANGED <<hookVars, encVars, pairVars, parVars, chainVars, cacheVars, raceVars, provVars, ctrVars, sigVars>>

\* the script could not be fetched; lines 86-93
ScriptError ==
  /\ \E k \in 1..Len(scripts) :
       /\ scripts[k] = "loading"
       /\ scripts' = [scripts EXCEPT ![k] = "error"]
       /\ InjectorSettles(k, "rejected", winSdk)
  /\ UNCHANGED <<winSdk, loadCount, keyCache, initCalls, instCount>>
  /\ UNCHANGED <<hookVars, encVars, pairVars, parVars, chainVars, cacheVars, raceVars, provVars, ctrVars, sigVars>>

\* a caller calls createFhevmInstance with its own signal and mockChains
\* (kind "direct"), or FHEVMMetaManager.initialize calls createFHEVMClient
\* (kind "client"), which first resolves the chain id itself (line 890) and
\* whose client passes mockChains {31337: ..} (line 359)
InstStart ==
  /\ inst.pc \in {"idle", "done"}
  /\ instCount < MaxInstCalls
  /\ instCount' = instCount + 1
  /\ \E kind \in {"direct", "client"}, chain \in Chains,
        mockChains \in MockChainChoices :
       /\ kind = "client" => mockChains = {}
       /\ inst' = [IdleInst EXCEPT
                     !.pc = IF kind = "client" THEN "clientChainId"
                            ELSE "chainId",
                     !.kind = kind, !.chain = chain,
                     !.mockChains = mockChains,
                     !.cacheBefore = keyCache]
  /\ UNCHANGED <<winSdk, scripts, injector, lastLoad, loadCount, keyCache,
                 initCalls>>
  /\ UNCHANGED <<hookVars, encVars, pairVars, parVars, chainVars, cacheVars, raceVars, provVars, ctrVars, sigVars>>

\* the caller aborts its signal while the call is running
Abort ==
  /\ inst.kind = "direct"
  /\ inst.pc \notin {"idle", "done"}
  /\ ~inst.aborted
  /\ inst' = [inst EXCEPT !.aborted = TRUE]
  /\ UNCHANGED <<winSdk, scripts, injector, lastLoad, loadCount, keyCache,
                 initCalls, instCount>>
  /\ UNCHANGED <<hookVars, encVars, pairVars, parVars, chainVars, cacheVars, raceVars, provVars, ctrVars, sigVars>>

\* createFHEVMClient lines 890-895: chain id resolved, client.initialize
\* calls createFhevmInstance with a signal nobody aborts
ClientChainIdOk ==
  /\ inst.pc = "clientChainId"
  /\ inst' = [inst EXCEPT !.pc = "chainId"]
  /\ UNCHANGED <<winSdk, scripts, injector, lastLoad, loadCount, keyCache,
                 initCalls, instCount>>
  /\ UNCHANGED <<hookVars, encVars, pairVars, parVars, chainVars, cacheVars, raceVars, provVars, ctrVars, sigVars>>

\* createFHEVMClient lines 898-901 and FHEVMMetaManager.initialize lines
\* 66-69: the chain id could not be resolved
ClientChainIdThrow ==
  /\ inst.pc = "clientChainId"
  /\ inst' = [inst EXCEPT !.pc = "done", !.outcome = "none",
                          !.err = "clientChainId",
                          !.managerOutcome = "rejected"]
  /\ UNCHANGED <<winSdk, scripts, injector, lastLoad, loadCount, keyCache,
                 initCalls, instCount>>
  /\ UNCHANGED <<hookVars, encVars, pairVars, parVars, chainVars, cacheVars, raceVars, provVars, ctrVars, sigVars>>

\* line 702 rejected
InstChainIdThrow ==
  /\ inst.pc = "chainId"
  /\ inst' = Finish(inst, "error", "chainId")
  /\ UNCHANGED <<winSdk, scripts, injector, lastLoad, loadCount, keyCache,
                 initCalls, instCount>>
  /\ UNCHANGED <<hookVars, encVars, pairVars, parVars, chainVars, cacheVars, raceVars, provVars, ctrVars, sigVars>>

\* lines 783-792: the ACL address is checked, the cache read is started
FromAclCheckSkipsCache(c) ==
  IF ~winSdk.aclValid THEN Finish(c, "error", "acl")
  ELSE [c EXCEPT !.pc = "creating"]
FromAclCheck(c) ==
  IF ~winSdk.aclValid THEN Finish(c, "error", "acl")
  ELSE [c EXCEPT !.pc = "cacheGet"]

\* lines 774-781: initSDK is called unless the engine says it is initialised
FromInitCheck(c) ==
  IF ~winSdk.initialized
  THEN inst' = [c EXCEPT !.pc = "initSDK"] /\ initCalls' = initCalls + 1
  ELSE inst' = FromAclCheck(c) /\ initCalls' = initCalls

\* lines 702-768 after the chain id resolved, on a simulated network
InstMock ==
  /\ inst.pc = "chainId"
  /\ isMock(inst.chain, inst.mockChains)
  /\ inst' = IF throwIfAborted(inst) THEN Finish(inst, "cancelled", "none")
             ELSE Finish(inst, "mock", "none")
  /\ UNCHANGED <<winSdk, scripts, injector, lastLoad, loadCount, keyCache,
                 initCalls, instCount>>
  /\ UNCHANGED <<hookVars, encVars, pairVars, parVars, chainVars, cacheVars, raceVars, provVars, ctrVars, sigVars>>

\* line 761 on a real network with the signal aborted
InstAbortedAtEntry ==
  /\ inst.pc = "chainId"
  /\ ~isMock(inst.chain, inst.mockChains)
  /\ throwIfAborted(inst)
  /\ inst' = Finish(inst, "cancelled", "none")
  /\ UNCHANGED <<winSdk, scripts, injector, lastLoad, loadCount, keyCache,
                 initCalls, instCount>>
  /\ UNCHANGED <<hookVars, encVars, pairVars, parVars, chainVars, cacheVars, raceVars, provVars, ctrVars, sigVars>>

\* lines 764-768: no valid engine on the page, load() is called
InstLoadCall ==
  /\ inst.pc = "chainId"
  /\ ~isMock(inst.chain, inst.mockChains)
  /\ ~throwIfAborted(inst)
  /\ ~isValidRelayerSDK(winSdk)
  /\ LoadCallEffect("factory")
  /\ LET r == LoadSync(winSdk, scripts)
     IN inst' = [inst EXCEPT !.pc = "loading",
                             !.load = IF r = "inject" THEN "waiting" ELSE r]
  /\ UNCHANGED <<winSdk, loadCount, keyCache, initCalls, instCount>>
  /\ UNCHANGED <<hookVars, encVars, pairVars, parVars, chainVars, cacheVars, raceVars, provVars, ctrVars, sigVars>>

\* lines 764 and 774: a valid engine is on the page already
InstSdkPresent ==
  /\ inst.pc = "chainId"
  /\ ~isMock(inst.chain, inst.mockChains)
  /\ ~throwIfAborted(inst)
  /\ isValidRelayerSDK(winSdk)
  /\ FromInitCheck(inst)
  /\ UNCHANGED <<winSdk, scripts, injector, lastLoad, loadCount, keyCache,
                 instCount>>
  /\ UNCHANGED <<hookVars, encVars, pairVars, parVars, chainVars, cacheVars, raceVars, provVars, ctrVars, sigVars>>

\* line 768 threw or rejected
InstLoadFailed ==
  /\ inst.pc = "loading"
  /\ inst.load \in {"rejected", "threw"}
  /\ inst' = Finish(inst, "error", "load")
  /\ UNCHANGED <<winSdk, scripts, injector, lastLoad, loadCount, keyCache,
                 initCalls, instCount>>
  /\ UNCHANGED <<hookVars, encVars, pairVars, parVars, chainVars, cacheVars, raceVars, provVars, ctrVars, sigVars>>

\* lines 768-781: load() resolved
InstLoadDone ==
  /\ inst.pc = "loading"
  /\ inst.load = "resolved"
  /\ IF throwIfAborted(inst)
     THEN inst' = Finish(inst, "cancelled", "none") /\ initCalls' = initCalls
     ELSE FromInitCheck(inst)
  /\ UNCHANGED <<winSdk, scripts, injector, lastLoad, loadCount, keyCache,
                 instCount>>
  /\ UNCHANGED <<hookVars, encVars, pairVars, parVars, chainVars, cacheVars, raceVars, provVars, ctrVars, sigVars>>

\* line 777 rejected
InstInitSdkThrow ==
  /\ inst.pc = "initSDK"
  /\ inst' = Finish(inst, "error", "initSDK")
  /\ UNCHANGED <<winSdk, scripts, injector, lastLoad, loadCount, keyCache,
                 initCalls, instCount>>
  /\ UNCHANGED <<hookVars, encVars, pairVars, parVars, chainVars, cacheVars, raceVars, provVars, ctrVars, sigVars>>

\* lines 777-792: initSDK resolved; the flag __initialized__ is not written
InstInitSdkOk ==
  /\ inst.pc = "initSDK"
  /\ inst' = IF throwIfAborted(inst) THEN Finish(inst, "cancelled", "none")
             ELSE FromAclCheck(inst)
  /\ UNCHANGED <<winSdk, scripts, injector, lastLoad, loadCount, keyCache,
                 initCalls, instCount>>
  /\ UNCHANGED <<hookVars, encVars, pairVars, parVars, chainVars, cacheVars, raceVars, provVars, ctrVars, sigVars>>

\* PublicKeyStorage.get lines 294-297: the catch answers the empty result
GetCatchRethrows == "rethrow"
GetCatch == "empty"

\* lines 791-835: the cache answered, from the store or, when the store
\* could not be opened or read, from the catch of get; createInstance is
\* called with the merged configuration
InstCacheGet ==
  /\ inst.pc = "cacheGet"
  /\ \E ok \in BOOLEAN :
       LET c == [inst EXCEPT !.cacheRead = TRUE, !.getFailed = ~ok]
       IN inst' = IF ~ok /\ GetCatch = "rethrow"
                  THEN Finish(c, "error", "cacheGet")
                  ELSE IF throwIfAborted(inst)
                  THEN Finish(c, "cancelled", "none")
                  ELSE [c EXCEPT !.pc = "creating",
                                 !.cached = IF ok THEN keyCache ELSE NoKeys]
  /\ UNCHANGED <<winSdk, scripts, injector, lastLoad, loadCount, keyCache,
                 initCalls, instCount>>
  /\ UNCHANGED <<hookVars, encVars, pairVars, parVars, chainVars, cacheVars, raceVars, provVars, ctrVars, sigVars>>

\* lines 847-851: createInstance rejected
InstCreateThrow ==
  /\ inst.pc = "creating"
  /\ inst' = Finish(inst, "error", "createInstance")
  /\ UNCHANGED <<winSdk, scripts, injector, lastLoad, loadCount, keyCache,
                 initCalls, instCount>>
  /\ UNCHANGED <<hookVars, encVars, pairVars, parVars, chainVars, cacheVars, raceVars, provVars, ctrVars, sigVars>>

\* lines 835-843: createInstance resolved, publicKeyStorage.set is called
InstCreateOk ==
  /\ inst.pc = "creating"
  /\ inst' = [inst EXCEPT !.pc = "cacheSet", !.created = TRUE]
  /\ UNCHANGED <<winSdk, scripts, injector, lastLoad, loadCount, keyCache,
                 initCalls, instCount>>
  /\ UNCHANGED <<hookVars, encVars, pairVars, parVars, chainVars, cacheVars, raceVars, provVars, ctrVars, sigVars>>

\* PublicKeyStorage.set lines 300-324: a field is put when it is given; a
\* store that fails writes nothing and the error is swallowed
CacheAfterSetKeepsParams(cache, publicKey, publicParams) ==
  [publicKey |-> IF publicKey # 0 THEN publicKey ELSE cache.publicKey,
   publicParams |-> IF cache.publicParams # 0 THEN cache.publicParams
                    ELSE publicParams]
CacheAfterSet(cache, publicKey, publicParams) ==
  [publicKey |-> IF publicKey # 0 THEN publicKey ELSE cache.publicKey,
   publicParams |-> IF publicParams # 0 THEN publicParams
                    ELSE cache.publicParams]

\* lines 839-846: set() finished, then the signal is checked
InstCacheSet ==
  /\ inst.pc = "cacheSet"
  /\ \E stored \in BOOLEAN, pk \in {0, instCount}, pp \in {0, instCount} :
       keyCache' = IF stored THEN CacheAfterSet(keyCache, pk, pp)
                   ELSE keyCache
  /\ inst' = IF throwIfAborted(inst) THEN Finish(inst, "cancelled", "none")
             ELSE Finish(inst, "instance", "none")
  /\ UNCHANGED <<winSdk, scripts, injector, lastLoad, loadCount, initCalls,
                 instCount>>
  /\ UNCHANGED <<hookVars, encVars, pairVars, parVars, chainVars, cacheVars, raceVars, provVars, ctrVars, sigVars>>

InstNext ==
  \/ LoadCall
  \/ ScriptLoaded
  \/ ScriptError
  \/ InstStart
  \/ Abort
  \/ ClientChainIdOk
  \/ ClientChainIdThrow
  \/ InstChainIdThrow
  \/ InstMock
  \/ InstAbortedAtEntry
  \/ InstLoadCall
  \/ InstSdkPresent
  \/ InstLoadFailed
  \/ InstLoadDone
  \/ InstInitSdkThrow
  \/ InstInitSdkOk
  \/ InstCacheGet
  \/ InstCreateThrow
  \/ InstCreateOk
  \/ InstCacheSet

(***************************************************************************)
(* The cache specification: PublicKeyStorage, two object stores keyed by   *)
(* the ACL address.  A get reads both stores in one readonly transaction,  *)
(* a set puts into them in one readwrite transaction, so each call acts on *)
(* the stores in one step.                                                 *)
(***************************************************************************)
\* get and set calls made
MaxStoreOps == 3

\* the ACL addresses used as keys
Domains == {"acl1", "acl2"}

\* JavaScript's undefined and null, and the objects of the cache
Undefined == [js |-> "undefined"]
JsNull == [js |-> "null"]

\* FhevmStoredPublicKey, lines 214-217
StoredPublicKeys ==
  {[js |-> "object", publicKeyId |-> id, publicKey |-> "keyBytes"] :
     id \in {"key1", "key2"}}

\* FhevmStoredPublicParams, lines 219-222
StoredPublicParams ==
  {[js |-> "object", publicParamsId |-> id, publicParams |-> "paramBytes"] :
     id \in {"params1", "params2"}}

\* an object store without records
EmptyStore == [a \in Domains |-> Undefined]

\* lines 309-315: tx.objectStore(..).put({acl, value}) when a value is given
PutAlways(store, acl, value) == [store EXCEPT ![acl] = value]
PutIfGiven(store, acl, value) ==
  IF value # JsNull THEN [store EXCEPT ![acl] = value] ELSE store

\* lines 262-271: req.result?.value || null, null too when the read fails
ReadValue(store, acl, readOk) ==
  IF readOk /\ store[acl] # Undefined THEN store[acl] ELSE JsNull

\* lines 278-284: { id, data } when the stored key has both, else undefined
GetPublicKey(storedPublicKey) ==
  IF /\ storedPublicKey # JsNull
     /\ storedPublicKey.publicKeyId # ""
     /\ storedPublicKey.publicKey # ""
  THEN [js |-> "object", id |-> storedPublicKey.publicKeyId,
        data |-> storedPublicKey.publicKey]
  ELSE Undefined

\* lines 286-288: { "2048": storedPublicParams } or null
GetPublicParams(storedPublicParams) ==
  IF storedPublicParams # JsNull
  THEN [js |-> "object", bits2048 |-> storedPublicParams]
  ELSE JsNull

\* lines 290-293: the publicKey property is spread in only when it is set;
\* reading a property that is absent gives undefined
GetResult(publicKey, publicParams) ==
  [threw |-> FALSE, publicKey |-> publicKey, publicParams |-> publicParams]

\* lines 294-297: the result of the catch block
GetCaught ==
  IF GetCatch = "rethrow"
  THEN [threw |-> TRUE, publicKey |-> Undefined, publicParams |-> Undefined]
  ELSE [threw |-> FALSE, publicKey |-> JsNull, publicParams |-> JsNull]

\* PublicKeyStorage.get, lines 253-298
StorageGet(pks, pps, acl, dbOk, keyReadOk, paramsReadOk) ==
  IF ~dbOk THEN GetCaught
  ELSE GetResult(GetPublicKey(ReadValue(pks, acl, keyReadOk)),
                 GetPublicParams(ReadValue(pps, acl, paramsReadOk)))

NoStoreOp ==
  [kind |-> "none", acl |-> "acl1", publicKey |-> JsNull,
   publicParams |-> JsNull, dbOk |-> FALSE, keyReadOk |-> FALSE,
   paramsReadOk |-> FALSE, result |-> GetResult(Undefined, Undefined)]

CacheBlank ==
  /\ publicKeyStore = EmptyStore
  /\ paramsStore = EmptyStore
  /\ storeOp = NoStoreOp
  /\ storeOps = 0

\* get(aclAddress): the store opens or not, each read succeeds or not
CacheGet ==
  /\ storeOps < MaxStoreOps
  /\ storeOps' = storeOps + 1
  /\ \E acl \in Domains, dbOk \in BOOLEAN, keyReadOk \in BOOLEAN,
        paramsReadOk \in BOOLEAN :
       /\ ~dbOk => (keyReadOk /\ paramsReadOk)
       /\ storeOp' = [kind |-> "get", acl |-> acl, publicKey |-> JsNull,
                      publicParams |-> JsNull, dbOk |-> dbOk,
                      keyReadOk |-> keyReadOk, paramsReadOk |-> paramsReadOk,
                      result |-> StorageGet(publicKeyStore, paramsStore, acl,
                                            dbOk, keyReadOk, paramsReadOk)]
  /\ UNCHANGED <<publicKeyStore, paramsStore>>
  /\ UNCHANGED <<hookVars, encVars, pairVars, parVars, chainVars, instVars, raceVars, provVars, ctrVars, sigVars>>

\* set(aclAddress, publicKey, publicParams), lines 300-324: the transaction
\* completes with the puts made, or the store cannot be opened or the
\* transaction fails, nothing is written and the error is only logged
CacheSet ==
  /\ storeOps < MaxStoreOps
  /\ storeOps' = storeOps + 1
  /\ \E acl \in Domains, dbOk \in BOOLEAN,
        publicKey \in StoredPublicKeys \cup {JsNull},
        publicParams \in StoredPublicParams \cup {JsNull} :
       /\ storeOp' = [NoStoreOp EXCEPT !.kind = "set", !.acl = acl,
                        !.publicKey = publicKey,
                        !.publicParams = publicParams, !.dbOk = dbOk]
       /\ publicKeyStore' = IF dbOk
                            THEN PutIfGiven(publicKeyStore, acl, publicKey)
                            ELSE publicKeyStore
       /\ paramsStore' = IF dbOk
                         THEN PutIfGiven(paramsStore, acl, publicParams)
                         ELSE paramsStore
  /\ UNCHANGED <<hookVars, encVars, pairVars, parVars, chainVars, instVars, raceVars, provVars, ctrVars, sigVars>>

CacheNext ==
  \/ CacheGet
  \/ CacheSet

(***************************************************************************)
(* The race specification: createFhevmInstance calls on a real network     *)
(* that overlap, on a page that holds a valid engine.  The calls share the *)
(* engine object (winSdk, initCalls) and the cache record of the engine's  *)
(* ACL address (keyCache); nobody aborts a signal.                         *)
(***************************************************************************)
\* createFhevmInstance calls that may overlap
MaxRaceCalls == 2

RaceCalls == 1..MaxRaceCalls

IdleRace ==
  [pc |-> "idle", sawInitialized |-> FALSE, cached |-> NoKeys,
   outcome |-> "none", handle |-> 0, wrote |-> FALSE]

RaceBlank == race = [p \in {} |-> IdleRace]

\* lines 774-777: the flag is read and, when it is not set, initSDK called
RaceStart(p) ==
  /\ race[p].pc = "idle"
  /\ isValidRelayerSDK(winSdk)
  /\ IF ~winSdk.initialized
     THEN /\ race' = [race EXCEPT ![p].pc = "initSDK"]
          /\ initCalls' = initCalls + 1
     ELSE /\ race' = [race EXCEPT ![p].pc = "cacheGet",
                                  ![p].sawInitialized = TRUE]
          /\ initCalls' = initCalls
  /\ UNCHANGED <<winSdk, scripts, injector, lastLoad, loadCount, keyCache,
                 inst, instCount>>
  /\ UNCHANGED <<hookVars, encVars, pairVars, parVars, chainVars, cacheVars, provVars, ctrVars, sigVars>>

\* line 777 resolved: the factory does not write __initialized__; the
\* engine itself may
RaceInitSdkOk(p) ==
  /\ race[p].pc = "initSDK"
  /\ race' = [race EXCEPT ![p].pc = "cacheGet"]
  /\ \E flag \in {winSdk.initialized, TRUE} :
       winSdk' = [winSdk EXCEPT !.initialized = flag]
  /\ UNCHANGED <<scripts, injector, lastLoad, loadCount, keyCache, initCalls,
                 inst, instCount>>
  /\ UNCHANGED <<hookVars, encVars, pairVars, parVars, chainVars, cacheVars, provVars, ctrVars, sigVars>>

\* line 777 rejected
RaceInitSdkThrow(p) ==
  /\ race[p].pc = "initSDK"
  /\ race' = [race EXCEPT ![p].pc = "done", ![p].outcome = "error"]
  /\ UNCHANGED instVars
  /\ UNCHANGED <<hookVars, encVars, pairVars, parVars, chainVars, cacheVars, provVars, ctrVars, sigVars>>

\* lines 791-835: the cache answered, createInstance is called
RaceCacheGet(p) ==
  /\ race[p].pc = "cacheGet"
  /\ race' = [race EXCEPT ![p].pc = "creating", ![p].cached = keyCache]
  /\ UNCHANGED instVars
  /\ UNCHANGED <<hookVars, encVars, pairVars, parVars, chainVars, cacheVars, provVars, ctrVars, sigVars>>

\* lines 847-851: createInstance rejected
RaceCreateThrow(p) ==
  /\ race[p].pc = "creating"
  /\ race' = [race EXCEPT ![p].pc = "done", ![p].outcome = "error"]
  /\ UNCHANGED instVars
  /\ UNCHANGED <<hookVars, encVars, pairVars, parVars, chainVars, cacheVars, provVars, ctrVars, sigVars>>

\* lines 835-843: createInstance resolved with an instance of this call,
\* publicKeyStorage.set is called with the instance's key and params
RaceCreateOk(p) ==
  /\ race[p].pc = "creating"
  /\ race' = [race EXCEPT ![p].pc = "cacheSet", ![p].handle = p]
  /\ UNCHANGED instVars
  /\ UNCHANGED <<hookVars, encVars, pairVars, parVars, chainVars, cacheVars, provVars, ctrVars, sigVars>>

\* lines 839-846: the transaction of set completed with both puts, or it
\* failed and wrote nothing; the instance is returned
RaceCacheSet(p) ==
  /\ race[p].pc = "cacheSet"
  /\ \E stored \in BOOLEAN :
       /\ keyCache' = IF stored
                      THEN CacheAfterSet(keyCache, race[p].handle,
                                         race[p].handle)
                      ELSE keyCache
       /\ race' = [race EXCEPT ![p].pc = "done", ![p].outcome = "instance",
                               ![p].wrote = stored]
  /\ UNCHANGED <<winSdk, scripts, injector, lastLoad, loadCount, initCalls,
                 inst, instCount>>
  /\ UNCHANGED <<hookVars, encVars, pairVars, parVars, chainVars, cacheVars, provVars, ctrVars, sigVars>>

RaceNext ==
  \/ \E p \in RaceCalls : RaceStart(p)
  \/ \E p \in RaceCalls : RaceInitSdkOk(p)
  \/ \E p \in RaceCalls : RaceInitSdkThrow(p)
  \/ \E p \in RaceCalls : RaceCacheGet(p)
  \/ \E p \in RaceCalls : RaceCreateThrow(p)
  \/ \E p \in RaceCalls : RaceCreateOk(p)
  \/ \E p \in RaceCalls : RaceCacheSet(p)

(***************************************************************************)
(* FHEVMProvider: the effect that creates the FHEVM client.  Every change  *)
(* of provider, account or chainId runs initializeFHEVM again; a run that  *)
(* reaches createFHEVMClient stays suspended until the client is there,    *)
(* and nothing cancels it when a later run starts.                         *)
(***************************************************************************)
MaxProvRuns == 3

NoDeps == [provider |-> FALSE, account |-> 0, chainId |-> 0]

\* what the wallet context can hold: nothing, or a provider on a chain with
\* an account (1, 2) or without one (0)
WalletStates ==
  {NoDeps} \cup [provider : {TRUE}, account : 0..2,
                 chainId : {1, 11155111, 31337}]

NoClient == [run |-> 0, chainId |-> 0]

\* FHEVMClient.isReady of a client created on chainId
ClientIsReady(chainId) == chainId = 11155111 \/ chainId = 31337

\* lines 65-69 of the effect
ProvIsSupported(chainId) == chainId = 11155111 \/ chainId = 31337

\* the branch a run takes before it is suspended
ProvBranch(deps) ==
  IF deps.chainId = 0 \/ ~deps.provider THEN "nothing"
  ELSE IF ProvIsSupported(deps.chainId) /\ deps.account # 0 THEN "create"
  ELSE "unsupported"

\* what a run stores when it ends: "kept" is a field it does not write
ProvOutcome(client, ready, status) ==
  [client |-> client, isReady |-> ready, sdkStatus |-> status]

ProvBlank ==
  /\ walletDeps = NoDeps
  /\ initRuns = << >>
  /\ networkSupported = FALSE
  /\ provIsReady = FALSE
  /\ fhevmClient = NoClient
  /\ sdkStatus = "idle"

\* lines 56-96: the wallet context changes and the effect runs up to the
\* await of createFHEVMClient, or to its end
ProvEffectRun ==
  /\ Len(initRuns) < MaxProvRuns
  /\ \E deps \in WalletStates \ {walletDeps} :
       LET branch == ProvBranch(deps)
           i == Len(initRuns) + 1
       IN  /\ walletDeps' = deps
           /\ networkSupported' =
                (branch # "nothing" /\ ProvIsSupported(deps.chainId))
           /\ CASE branch = "nothing" ->
                     /\ provIsReady' = FALSE
                     /\ fhevmClient' = NoClient
                     /\ sdkStatus' = sdkStatus
                     /\ initRuns' = Append(initRuns,
                          [deps |-> deps, pc |-> "done", clientChain |-> 0,
                           outcome |-> ProvOutcome(NoClient, FALSE, "kept")])
                [] branch = "unsupported" ->
                     /\ provIsReady' = FALSE
                     /\ fhevmClient' = NoClient
                     /\ sdkStatus' = "idle"
                     /\ initRuns' = Append(initRuns,
                          [deps |-> deps, pc |-> "done", clientChain |-> 0,
                           outcome |-> ProvOutcome(NoClient, FALSE, "idle")])
                [] branch = "create" ->
                     /\ sdkStatus' = "initializing"
                     /\ UNCHANGED <<provIsReady, fhevmClient>>
                     /\ initRuns' = Append(initRuns,
                          [deps |-> deps, pc |-> "chainId", clientChain |-> 0,
                           outcome |-> ProvOutcome(NoClient, FALSE, "kept")])
  /\ UNCHANGED <<hookVars, encVars, pairVars, parVars, chainVars, instVars, cacheVars, raceVars, ctrVars, sigVars>>

\* createFHEVMClient, getChainId: the provider answers with the chain the
\* wallet is on when it is asked
ProvChainIdOk(i) ==
  /\ initRuns[i].pc = "chainId"
  /\ walletDeps.chainId # 0
  /\ initRuns' = [initRuns EXCEPT ![i].pc = "initializing",
                                  ![i].clientChain = walletDeps.chainId]
  /\ UNCHANGED <<walletDeps, networkSupported, provIsReady, fhevmClient,
                 sdkStatus>>
  /\ UNCHANGED <<hookVars, encVars, pairVars, parVars, chainVars, instVars, cacheVars, raceVars, ctrVars, sigVars>>

\* lines 78-81: createFHEVMClient resolved with the client
ProvCreateOk(i) ==
  /\ initRuns[i].pc = "initializing"
  /\ LET client == [run |-> i, chainId |-> initRuns[i].clientChain]
         ready == ClientIsReady(client.chainId)
     IN  /\ initRuns' = [initRuns EXCEPT ![i].pc = "done",
               ![i].outcome = ProvOutcome(client, ready, "ready")]
         /\ fhevmClient' = client
         /\ provIsReady' = ready
         /\ sdkStatus' = "ready"
  /\ UNCHANGED <<walletDeps, networkSupported>>
  /\ UNCHANGED <<hookVars, encVars, pairVars, parVars, chainVars, instVars, cacheVars, raceVars, ctrVars, sigVars>>

\* lines 84-89: createFHEVMClient rejected
ProvCreateThrow(i) ==
  /\ initRuns[i].pc \in {"chainId", "initializing"}
  /\ initRuns' = [initRuns EXCEPT ![i].pc = "done",
        ![i].outcome = ProvOutcome(NoClient, FALSE, "error")]
  /\ fhevmClient' = NoClient
  /\ provIsReady' = FALSE
  /\ sdkStatus' = "error"
  /\ UNCHANGED <<walletDeps, networkSupported>>
  /\ UNCHANGED <<hookVars, encVars, pairVars, parVars, chainVars, instVars, cacheVars, raceVars, ctrVars, sigVars>>

ProvNext ==
  \/ ProvEffectRun
  \/ \E i \in 1..MaxProvRuns + 1 :
       /\ i <= Len(initRuns)
       /\ \/ ProvChainIdOk(i)
          \/ ProvCreateOk(i)
          \/ ProvCreateThrow(i)

(***************************************************************************)
(* FHECounterDemo and useFHECounter.  The component hands the hook two     *)
(* refs, sameChain and sameSigner, whose closures are the ones created by  *)
(* the first render: useRef keeps its first argument, and nothing assigns  *)
(* the refs afterwards.  The wallet (chain, signer, instance) changes      *)
(* under the hook; refreshCountHandle is called by the hook's effect and   *)
(* by the page, incOrDec by the page.                                      *)
(***************************************************************************)
MaxRefreshes == 2
MaxOps == 2

\* the chains the wallet is on: none yet, Sepolia, Hardhat
CtrChains == {0, 11155111, 31337}
Signers == {1, 2}
NoHandle == [set |-> FALSE, chainId |-> 0, address |-> 0, call |-> 0]

\* FHE_COUNTER_ADDRESSES: 1 and 2 stand for the two deployed addresses,
\* 0 for a missing address
FHE_COUNTER_ADDRESSES(chainId) ==
  CASE chainId = 11155111 -> 1
    [] chainId = 31337 -> 2
    [] OTHER -> 0

\* getFHECounterByChainId: chainId 0 is a missing field as well
getFHECounterByChainId(chainId) ==
  [address |-> FHE_COUNTER_ADDRESSES(chainId), chainId |-> chainId]

\* line 590: the closure of the first render compares with its chainId
sameChain(currentChainId) == currentChainId = mountChain

\* line 591: the closure of the first render compares with its
\* ethersSigner, which is the initial state null
sameSigner(currentSigner) == currentSigner = 0

\* lines 1211-1214
isStale(op) ==
  \/ op.address # fheCounterRef.address
  \/ ~sameChain(op.chainId)
  \/ ~sameSigner(op.signer)

\* lines 1023-1026: whether a getCount() response is stored
AcceptsOnSameChainOnly(r) == sameChain(r.chainId)
Accepts(r) ==
  /\ sameChain(r.chainId)
  /\ r.address = fheCounterRef.address

\* line 1183
IncOrDecBusyRefreshOnly == isRefreshingRef
IncOrDecBusy == isRefreshingRef \/ isIncOrDecRef

Pending(calls) == {i \in 1..Len(calls) : calls[i].pc = "pending"}

CtrBlank ==
  /\ mountChain = 0
  /\ prevChain = 0
  /\ ctrChain = 0
  /\ fheCounterRef = getFHECounterByChainId(0)
  /\ ethersSigner = 0
  /\ ethersReadonlyProvider = FALSE
  /\ fhevmInstance = FALSE
  /\ isRefreshingRef = FALSE
  /\ isIncOrDecRef = FALSE
  /\ countHandle = NoHandle
  /\ refreshes = << >>
  /\ ops = << >>

\* the wallet changes chain: the component renders with the new chainId
\* and the hook's useMemo (lines 969-978) stores the contract of that chain
CtrChainChange ==
  /\ \E c \in CtrChains \ {ctrChain} :
       /\ prevChain' = ctrChain
       /\ ctrChain' = c
       /\ fheCounterRef' = getFHECounterByChainId(c)
  /\ UNCHANGED <<mountChain, ethersSigner, ethersReadonlyProvider,
                 fhevmInstance, isRefreshingRef, isIncOrDecRef, countHandle,
                 refreshes, ops>>
  /\ UNCHANGED <<hookVars, encVars, pairVars, parVars, chainVars, instVars, cacheVars, raceVars, provVars, sigVars>>

\* lines 594-607: initializeProviders got the signer of the account
CtrProvidersReady ==
  /\ \E s \in Signers \ {ethersSigner} : ethersSigner' = s
  /\ ethersReadonlyProvider' = TRUE
  /\ UNCHANGED <<mountChain, prevChain, ctrChain, fheCounterRef, fhevmInstance,
                 isRefreshingRef, isIncOrDecRef, countHandle, refreshes, ops>>
  /\ UNCHANGED <<hookVars, encVars, pairVars, parVars, chainVars, instVars, cacheVars, raceVars, provVars, sigVars>>

\* lines 610-619: useFhevm has created the instance
CtrInstanceReady ==
  /\ ~fhevmInstance
  /\ fhevmInstance' = TRUE
  /\ UNCHANGED <<mountChain, prevChain, ctrChain, fheCounterRef, ethersSigner,
                 ethersReadonlyProvider, isRefreshingRef, isIncOrDecRef,
                 countHandle, refreshes, ops>>
  /\ UNCHANGED <<hookVars, encVars, pairVars, parVars, chainVars, instVars, cacheVars, raceVars, provVars, sigVars>>

\* lines 991-1018: refreshCountHandle up to the getCount() call; a call
\* made while isRefreshingRef is set returns at once
RefreshCall ==
  /\ ~isRefreshingRef
  /\ IF fheCounterRef.chainId = 0 \/ fheCounterRef.address = 0
        \/ ~ethersReadonlyProvider
     THEN /\ countHandle # NoHandle
          /\ countHandle' = NoHandle
          /\ UNCHANGED <<isRefreshingRef, refreshes>>
     ELSE /\ Len(refreshes) < MaxRefreshes
          /\ isRefreshingRef' = TRUE
          /\ refreshes' = Append(refreshes,
               [chainId |-> fheCounterRef.chainId,
                address |-> fheCounterRef.address,
                pc |-> "pending", accepted |-> FALSE])
          /\ UNCHANGED countHandle
  /\ UNCHANGED <<mountChain, prevChain, ctrChain, fheCounterRef, ethersSigner,
                 ethersReadonlyProvider, fhevmInstance, isIncOrDecRef, ops>>
  /\ UNCHANGED <<hookVars, encVars, pairVars, parVars, chainVars, instVars, cacheVars, raceVars, provVars, sigVars>>

\* lines 1021-1032: getCount() resolved with the handle of that contract
RefreshResolve(i) ==
  /\ refreshes[i].pc = "pending"
  /\ LET r == refreshes[i]
     IN  /\ countHandle' =
               IF Accepts(r)
               THEN [set |-> TRUE, chainId |-> r.chainId,
                     address |-> r.address, call |-> i]
               ELSE countHandle
         /\ refreshes' = [refreshes EXCEPT ![i].pc = "resolved",
                                           ![i].accepted = Accepts(r)]
  /\ isRefreshingRef' = FALSE
  /\ UNCHANGED <<mountChain, prevChain, ctrChain, fheCounterRef, ethersSigner,
                 ethersReadonlyProvider, fhevmInstance, isIncOrDecRef, ops>>
  /\ UNCHANGED <<hookVars, encVars, pairVars, parVars, chainVars, instVars, cacheVars, raceVars, provVars, sigVars>>

\* lines 1033-1038: getCount() rejected
RefreshReject(i) ==
  /\ refreshes[i].pc = "pending"
  /\ refreshes' = [refreshes EXCEPT ![i].pc = "rejected"]
  /\ isRefreshingRef' = FALSE
  /\ UNCHANGED <<mountChain, prevChain, ctrChain, fheCounterRef, ethersSigner,
                 ethersReadonlyProvider, fhevmInstance, isIncOrDecRef,
                 countHandle, ops>>
  /\ UNCHANGED <<hookVars, encVars, pairVars, parVars, chainVars, instVars, cacheVars, raceVars, provVars, sigVars>>

\* lines 1181-1206, 1263: incOrDec(value) up to the start of run(); value
\* is not 0
IncOrDecCall ==
  /\ Len(ops) < MaxOps
  /\ ~IncOrDecBusy
  /\ fheCounterRef.address # 0
  /\ fhevmInstance
  /\ ethersSigner # 0
  /\ isIncOrDecRef' = TRUE
  /\ ops' = Append(ops,
       [chainId |-> ctrChain, address |-> fheCounterRef.address,
        signer |-> ethersSigner, pc |-> "pending", how |-> "none",
        refreshing |-> Pending(refreshes) # {},
        running |-> Pending(ops) # {}])
  /\ UNCHANGED <<mountChain, prevChain, ctrChain, fheCounterRef, ethersSigner,
                 ethersReadonlyProvider, fhevmInstance, isRefreshingRef,
                 countHandle, refreshes>>
  /\ UNCHANGED <<hookVars, encVars, pairVars, parVars, chainVars, instVars, cacheVars, raceVars, provVars, sigVars>>

\* lines 1208-1228, 1257-1260: the timer fired and encrypt() resolved.
\* isStale() is true here in every state (sameSigner compares a signer
\* with null), so the run ends with 'Ignore' and the finally block; the
\* statements after line 1228 are never reached
IncOrDecEncrypted(i) ==
  /\ ops[i].pc = "pending"
  /\ isStale(ops[i])
  /\ ops' = [ops EXCEPT ![i].pc = "ended", ![i].how = "ignored"]
  /\ isIncOrDecRef' = FALSE
  /\ UNCHANGED <<mountChain, prevChain, ctrChain, fheCounterRef, ethersSigner,
                 ethersReadonlyProvider, fhevmInstance, isRefreshingRef,
                 countHandle, refreshes>>
  /\ UNCHANGED <<hookVars, encVars, pairVars, parVars, chainVars, instVars, cacheVars, raceVars, provVars, sigVars>>

\* lines 1255-1260: createEncryptedInput, add32 or encrypt threw
IncOrDecThrow(i) ==
  /\ ops[i].pc = "pending"
  /\ ops' = [ops EXCEPT ![i].pc = "ended", ![i].how = "failed"]
  /\ isIncOrDecRef' = FALSE
  /\ UNCHANGED <<mountChain, prevChain, ctrChain, fheCounterRef, ethersSigner,
                 ethersReadonlyProvider, fhevmInstance, isRefreshingRef,
                 countHandle, refreshes>>
  /\ UNCHANGED <<hookVars, encVars, pairVars, parVars, chainVars, instVars, cacheVars, raceVars, provVars, sigVars>>

CtrNext ==
  \/ CtrChainChange
  \/ CtrProvidersReady
  \/ CtrInstanceReady
  \/ RefreshCall
  \/ \E i \in 1..MaxRefreshes + 1 :
       /\ i <= Len(refreshes)
       /\ \/ RefreshResolve(i)
          \/ RefreshReject(i)
  \/ IncOrDecCall
  \/ \E i \in 1..MaxOps + 1 :
       /\ i <= Len(ops)
       /\ \/ IncOrDecEncrypted(i)
          \/ IncOrDecThrow(i)

(***************************************************************************)
(* FhevmDecryptionSignature.loadOrSign.  Time is in seconds; the clock     *)
(* moves in steps of half the validity of a new signature, so that a call  *)
(* can come before, exactly at and after the expiry of a stored one.       *)
(***************************************************************************)
MaxSigTicks == 3
MaxSigCalls == 2

DaySeconds == 86400
DurationDays == 30

SigUsers == {1, 2}
SigContractLists == {<<1>>, <<1, 2>>}

\* line 24: the key is made of the user address and the joined addresses
StorageKey(userAddress, contractAddresses) ==
  <<userAddress, contractAddresses>>

SigKeys ==
  {StorageKey(u, cs) : u \in SigUsers, cs \in SigContractLists}

\* the strings of the storage: nothing, a string JSON.parse rejects, or
\* the JSON text of a signature
NoString == [text |-> "null"]
Garbage == [text |-> "garbage"]
Stringify(sig) ==
  [text |-> "json", userAddress |-> sig.userAddress,
   contractAddresses |-> sig.contractAddresses,
   startTimestamp |-> sig.startTimestamp, durationDays |-> sig.durationDays]

NoSignature ==
  [kind |-> "null", userAddress |-> 0, contractAddresses |-> << >>,
   startTimestamp |-> 0, durationDays |-> 0]

\* lines 36-44: the object built from the parsed fields
FromParsed(parsed) ==
  [kind |-> "stored", userAddress |-> parsed.userAddress,
   contractAddresses |-> parsed.contractAddresses,
   startTimestamp |-> parsed.startTimestamp,
   durationDays |-> parsed.durationDays]

\* lines 52-75: the new signature
NewSignature(userAddress, contractAddresses, startTimestamp) ==
  [kind |-> "new", userAddress |-> userAddress,
   contractAddresses |-> contractAddresses,
   startTimestamp |-> startTimestamp, durationDays |-> DurationDays]

\* lines 32-35
ExpirationTime(parsed) ==
  parsed.startTimestamp + parsed.durationDays * 24 * 60 * 60
StillValidAtExpiry(now, parsed) == now <= ExpirationTime(parsed)
StillValid(now, parsed) == now < ExpirationTime(parsed)

\* lines 27-48: whether the stored string is returned
Usable(stored, now) ==
  /\ stored.text = "json"
  /\ StillValid(now, stored)

IdleSig ==
  [pc |-> "idle", userAddress |-> 0, contractAddresses |-> << >>,
   stored |-> NoString, now |-> 0, threw |-> FALSE, result |-> NoSignature]

SigBlank ==
  /\ sigNow = 0
  /\ sigStore = [k \in SigKeys |-> NoString]
  /\ sigCall = IdleSig
  /\ sigCalls = 0

\* the clock advances
SigTick ==
  /\ sigNow < MaxSigTicks * (DurationDays \div 2) * DaySeconds
  /\ sigNow' = sigNow + (DurationDays \div 2) * DaySeconds
  /\ UNCHANGED <<sigStore, sigCall, sigCalls>>
  /\ UNCHANGED <<hookVars, encVars, pairVars, parVars, chainVars, instVars, cacheVars, raceVars, provVars, ctrVars>>

\* lines 16-27: loadOrSign is called, the signer gives its address and the
\* storage is asked for the key
SigStart ==
  /\ sigCall.pc \in {"idle", "done"}
  /\ sigCalls < MaxSigCalls
  /\ sigCalls' = sigCalls + 1
  /\ \E u \in SigUsers, cs \in SigContractLists :
       sigCall' = [IdleSig EXCEPT !.pc = "loading", !.userAddress = u,
                                  !.contractAddresses = cs]
  /\ UNCHANGED <<sigNow, sigStore>>
  /\ UNCHANGED <<hookVars, encVars, pairVars, parVars, chainVars, instVars, cacheVars, raceVars, provVars, ctrVars>>

\* lines 27-63: the storage answered; the stored signature is returned or
\* the new one is prepared and the signer is asked to sign
SigLoaded ==
  /\ sigCall.pc = "loading"
  /\ LET stored == sigStore[StorageKey(sigCall.userAddress,
                                       sigCall.contractAddresses)]
     IN  sigCall' =
           IF Usable(stored, sigNow)
           THEN [sigCall EXCEPT !.pc = "done", !.stored = stored,
                                !.now = sigNow,
                                !.result = FromParsed(stored)]
           ELSE [sigCall EXCEPT !.pc = "signing", !.stored = stored,
                                !.now = sigNow]
  /\ UNCHANGED <<sigNow, sigStore, sigCalls>>
  /\ UNCHANGED <<hookVars, encVars, pairVars, parVars, chainVars, instVars, cacheVars, raceVars, provVars, ctrVars>>

\* lines 63-85: the signer signed; the new signature is given to the
\* storage
SigSigned ==
  /\ sigCall.pc = "signing"
  /\ sigCall' = [sigCall EXCEPT !.pc = "storing"]
  /\ UNCHANGED <<sigNow, sigStore, sigCalls>>
  /\ UNCHANGED <<hookVars, encVars, pairVars, parVars, chainVars, instVars, cacheVars, raceVars, provVars, ctrVars>>

\* lines 76-87: the storage kept the string; the new signature is returned
SigStored ==
  /\ sigCall.pc = "storing"
  /\ LET newSig == NewSignature(sigCall.userAddress,
                                sigCall.contractAddresses, sigCall.now)
     IN  /\ sigStore' =
               [sigStore EXCEPT ![StorageKey(sigCall.userAddress,
                                             sigCall.contractAddresses)] =
                                   Stringify(newSig)]
         /\ sigCall' = [sigCall EXCEPT !.pc = "done", !.result = newSig]
  /\ UNCHANGED <<sigNow, sigCalls>>
  /\ UNCHANGED <<hookVars, encVars, pairVars, parVars, chainVars, instVars, cacheVars, raceVars, provVars, ctrVars>>

\* lines 88-91: the signer, or the storage, rejected: null is returned
SigThrow ==
  /\ sigCall.pc \in {"loading", "signing", "storing"}
  /\ sigCall' = [sigCall EXCEPT !.pc = "done", !.threw = TRUE,
                                !.result = NoSignature]
  /\ UNCHANGED <<sigNow, sigStore, sigCalls>>
  /\ UNCHANGED <<hookVars, encVars, pairVars, parVars, chainVars, instVars, cacheVars, raceVars, provVars, ctrVars>>

SigNext ==
  \/ SigTick
  \/ SigStart
  \/ SigLoaded
  \/ SigSigned
  \/ SigStored
  \/ SigThrow

(***************************************************************************)
(* The specifications.                                                     *)
(***************************************************************************)
vars == <<hookVars, encVars, pairVars, parVars, chainVars, instVars,
          cacheVars, raceVars, provVars, ctrVars, sigVars>>

Init ==
  /\ SigBlank
  /\ CtrBlank
  /\ ProvBlank
  /\ HookInit
  /\ encClient = [chainId |-> SEPOLIA, hasInstance |-> FALSE,
                  providerIsUrl |-> FALSE, contractValid |-> TRUE]
  /\ EncBlank
  /\ PairBlank
  /\ ParBlank
  /\ ChainBlank
  /\ InstBlank
  /\ CacheBlank
  /\ RaceBlank

Next == HookNext

Spec == Init /\ [][Next]_vars

InitEnc ==
  /\ SigBlank
  /\ CtrBlank
  /\ ProvBlank
  /\ HookInit
  /\ walletChain = SEPOLIA
  /\ EncInit
  /\ PairBlank
  /\ ParBlank
  /\ ChainBlank
  /\ InstBlank
  /\ CacheBlank
  /\ RaceBlank

NextEnc == EncNext

SpecEnc == InitEnc /\ [][NextEnc]_vars

InitPair ==
  /\ SigBlank
  /\ CtrBlank
  /\ ProvBlank
  /\ HookInit
  /\ walletChain = SEPOLIA
  /\ encClient = [chainId |-> SEPOLIA, hasInstance |-> FALSE,
                  providerIsUrl |-> FALSE, contractValid |-> TRUE]
  /\ EncBlank
  /\ PairInit
  /\ ParBlank
  /\ ChainBlank
  /\ InstBlank
  /\ CacheBlank
  /\ RaceBlank

NextPair == PairNext

SpecPair == InitPair /\ [][NextPair]_vars

\* every component but the one a specification is about stays as constructed
HookIdle == HookInit /\ walletChain = SEPOLIA
EncIdle ==
  /\ encClient = [chainId |-> SEPOLIA, hasInstance |-> FALSE,
                  providerIsUrl |-> FALSE, contractValid |-> TRUE]
  /\ EncBlank

InitPar ==
  /\ SigBlank
  /\ CtrBlank
  /\ ProvBlank
  /\ HookIdle
  /\ EncIdle
  /\ PairBlank
  /\ ParInit
  /\ ChainBlank
  /\ InstBlank
  /\ CacheBlank
  /\ RaceBlank

NextPar == ParNext

SpecPar == InitPar /\ [][NextPar]_vars

InitChain ==
  /\ SigBlank
  /\ CtrBlank
  /\ ProvBlank
  /\ HookIdle
  /\ EncIdle
  /\ PairBlank
  /\ ParBlank
  /\ ChainInit
  /\ InstBlank
  /\ CacheBlank
  /\ RaceBlank

NextChain == ChainNext

SpecChain == InitChain /\ [][NextChain]_vars

InitInst ==
  /\ SigBlank
  /\ CtrBlank
  /\ ProvBlank
  /\ HookIdle
  /\ EncIdle
  /\ PairBlank
  /\ ParBlank
  /\ ChainBlank
  /\ InstInit
  /\ CacheBlank
  /\ RaceBlank

NextInst == InstNext

SpecInst == InitInst /\ [][NextInst]_vars

InitCache ==
  /\ SigBlank
  /\ CtrBlank
  /\ ProvBlank
  /\ HookIdle
  /\ EncIdle
  /\ PairBlank
  /\ ParBlank
  /\ ChainBlank
  /\ InstBlank
  /\ RaceBlank
  /\ publicKeyStore = EmptyStore
  /\ paramsStore = EmptyStore
  /\ storeOp = NoStoreOp
  /\ storeOps = 0

NextCache == CacheNext

SpecCache == InitCache /\ [][NextCache]_vars

\* the page holds a valid engine, initialised by an earlier use or not
InitRace ==
  /\ SigBlank
  /\ CtrBlank
  /\ ProvBlank
  /\ HookIdle
  /\ EncIdle
  /\ PairBlank
  /\ ParBlank
  /\ ChainBlank
  /\ CacheBlank
  /\ winSdk \in {ValidSdk, [ValidSdk EXCEPT !.initialized = TRUE]}
  /\ scripts = << >>
  /\ injector = NoLoad
  /\ lastLoad = NoLoad
  /\ loadCount = 0
  /\ keyCache = NoKeys
  /\ initCalls = 0
  /\ inst = IdleInst
  /\ instCount = 0
  /\ race = [p \in RaceCalls |-> IdleRace]

NextRace == RaceNext

SpecRace == InitRace /\ [][NextRace]_vars

InitProv ==
  /\ SigBlank
  /\ CtrBlank
  /\ HookIdle
  /\ EncIdle
  /\ PairBlank
  /\ ParBlank
  /\ ChainBlank
  /\ InstBlank
  /\ CacheBlank
  /\ RaceBlank
  /\ walletDeps = NoDeps
  /\ initRuns = << >>
  /\ networkSupported = FALSE
  /\ provIsReady = FALSE
  /\ fhevmClient = NoClient
  /\ sdkStatus = "idle"

NextProv == ProvNext

SpecProv == InitProv /\ [][NextProv]_vars

\* the component is mounted on any chain, or before the wallet is there
InitCtr ==
  /\ SigBlank
  /\ HookIdle
  /\ EncIdle
  /\ PairBlank
  /\ ParBlank
  /\ ChainBlank
  /\ InstBlank
  /\ CacheBlank
  /\ RaceBlank
  /\ ProvBlank
  /\ mountChain \in CtrChains
  /\ prevChain = mountChain
  /\ ctrChain = mountChain
  /\ fheCounterRef = getFHECounterByChainId(mountChain)
  /\ ethersSigner = 0
  /\ ethersReadonlyProvider = FALSE
  /\ fhevmInstance = FALSE
  /\ isRefreshingRef = FALSE
  /\ isIncOrDecRef = FALSE
  /\ countHandle = NoHandle
  /\ refreshes = << >>
  /\ ops = << >>

NextCtr == CtrNext

SpecCtr == InitCtr /\ [][NextCtr]_vars

\* the storage is empty or holds, under some keys, a string that is not a
\* signature
InitSig ==
  /\ HookIdle
  /\ EncIdle
  /\ PairBlank
  /\ ParBlank
  /\ ChainBlank
  /\ InstBlank
  /\ CacheBlank
  /\ RaceBlank
  /\ ProvBlank
  /\ CtrBlank
  /\ sigNow = 0
  /\ sigStore \in [SigKeys -> {NoString, Garbage}]
  /\ sigCall = IdleSig
  /\ sigCalls = 0

NextSig == SigNext

SpecSig == InitSig /\ [][NextSig]_vars



(***************************************************************************)
(* Properties of the hook and the manager (specification Spec).            *)
(***************************************************************************)
Rank(status) ==
  CASE status = "pending" -> 0
    [] status = "processing" -> 1
    [] OTHER -> 2

Forward(s, t) == Rank(t) >= Rank(s) /\ (s \in Terminal => t = s)

\* C1: the status of a MetaTransaction record, in the manager's hands and in
\* the hook's history, never moves backward along pending -> processing ->
\* {completed | failed}, and a completed or failed record never changes
\* status again, over manager steps and polling ticks.
C1_StatusMovesForward ==
  [][/\ (call.tx.id # 0 /\ call'.tx.id = call.tx.id)
          => Forward(call.tx.status, call'.tx.status)
     /\ \A k \in DOMAIN transactions : \A m \in DOMAIN transactions' :
          transactions[k].id = transactions'[m].id
            => Forward(transactions[k].status, transactions'[m].status)
    ]_vars

\* a completed record is in the history while a polling tick is working on it
C1_Witness ==
  /\ pollPc = "querying"
  /\ \E k \in DOMAIN pollSnapshot : pollSnapshot[k].status = "completed"
  /\ call.pc = "sending"

\* C2: when executeMetaTransaction has finished, its record is completed
\* exactly when a receipt with status code 1 was obtained, failed when the
\* receipt had another code or a step inside the try block threw, and never
\* pending or processing.
C2_FinalStatusFromReceipt ==
  (call.pc \in Finished /\ call.tx.id # 0)
    => /\ call.tx.status \in Terminal
       /\ call.tx.status = "completed" <=> call.receipt = 1
       /\ (call.receipt = 0 \/ call.pc = "rejected")
            => call.tx.status = "failed"

\* a call that returned after a receipt with a status code other than 1
C2_Witness ==
  /\ call.pc = "resolved"
  /\ call.receipt = 0
  /\ call.tx.status = "failed"

\* C3: the history is append-only: a step other than clearTransactions keeps
\* every entry, and a request that returns a record puts it in front of the
\* entries that were there.
C3_HistoryAppendOnly ==
  [][\/ ClearTransactions
     \/ /\ \A k \in DOMAIN transactions : \E m \in DOMAIN transactions' :
             transactions'[m].id = transactions[k].id
        /\ (call.pc = "waiting" /\ call'.pc = "resolved")
             => transactions' = <<call'.tx>> \o transactions
    ]_vars

\* C4: an attempt that fails in parameter encryption, in the submission or in
\* the wait for inclusion leaves a record with status failed in the history.
C4_FailedAttemptRecorded ==
  [][(/\ call.pc \notin Finished
      /\ call'.pc = "rejected"
      /\ call'.err \in {"EncryptFailed", "FailedSend", "FailedWait"})
       => \E m \in DOMAIN transactions' :
            /\ transactions'[m].id = call'.id
            /\ transactions'[m].status = "failed"
    ]_vars

\* C5: a request made on an unsupported chain, which initialize has seen, is
\* rejected before any network call, with an error that says the network is
\* not supported.
C5_UnsupportedChainRejected ==
  (/\ call.pc # "idle"
   /\ ~isNetworkSupported(call.reqChain)
   /\ call.refAtReq)
    => /\ call.pc = "rejected"
       /\ ~call.net
       /\ call.err = "NetworkNotSupported"

(***************************************************************************)
(* Properties of createEncryptedInput (specification SpecEnc).             *)
(***************************************************************************)
FallbackEnvs ==
  [providerIsUrl : {encClient.providerIsUrl}, signerOk : BOOLEAN,
   ts : TimeStamps, nonce : Nonces]

\* C6: a failure of the primary path is never what the caller gets: the call
\* goes on with the fallback encoder and ends as that encoder ends.
C6_PrimaryFailureRecovered ==
  (encPc = "done" /\ encPrimaryErr # "none")
    => /\ encOutcome.path \in {"compat", "minimal"}
       /\ \E env \in FallbackEnvs :
            encOutcome = createCompatibleEncryptedInput(encArgs, env)

\* the engine's result lacked a handle or a proof and the fallback answered
C6_Witness ==
  /\ encPc = "done"
  /\ encPrimaryErr = "missing"
  /\ encOutcome.status = "resolved"
  /\ encOutcome.path = "compat"

\* a non-negative integer value and a valid contract address
WellTyped(a) == a.value >= 0 /\ a.contractValid

\* C7: for well-typed inputs createEncryptedInput resolves with a handle and
\* a proof, whichever of the primary path, the deterministic fallback and its
\* signer lookup fail.
C7_NeverRejectsWellTyped ==
  (encPc = "done" /\ WellTyped(encArgs))
    => /\ encOutcome.status = "resolved"
       /\ encOutcome.handle.kind # "none"
       /\ encOutcome.proof.kind # "none"

\* the primary path failed, the deterministic fallback failed, the minimal
\* fallback answered
C7_Witness ==
  /\ encPc = "done"
  /\ WellTyped(encArgs)
  /\ encPrimaryErr # "none"
  /\ encOutcome.path = "minimal"
  /\ encOutcome.status = "resolved"

OriginalValue(param) ==
  IF param.type = "ebool"
  THEN IF ToBoolean(param.value) THEN 1 ELSE 0
  ELSE ToNumber(param.value)

\* C10: for a well-typed parameter the engine input on the primary path and
\* the proof on the fallback paths carry the parameter's original numeric
\* value for euint32 and euint64, and 1 or 0 for an ebool.
C10_OnlyBooleansCoerced ==
  (encPc = "done" /\ encOutcome.status = "resolved" /\ WellTyped(encArgs))
    => CASE encOutcome.path = "primary" ->
              /\ Len(encAdded) = 1
              /\ encAdded[1].v = OriginalValue(encParam)
         [] encOutcome.path = "compat" ->
              encOutcome.proof.values[4] = OriginalValue(encParam)
         [] OTHER ->
              encOutcome.proof.values[1] = OriginalValue(encParam)

(***************************************************************************)
(* Properties of the fallback encoder run twice (specification SpecPair).  *)
(***************************************************************************)
\* the proof of the deterministic fallback holds the value and the contract
ProofCarries(a, proof) ==
  /\ proof.values[2] = a.contract
  /\ proof.values[4] = IF a.type = "euint32" THEN a.value
                       ELSE IF a.value # 0 THEN 1 ELSE 0

\* C9: two runs of the deterministic fallback on the same arguments that
\* differ in timestamp or in nonce give different handles, and each proof
\* holds the original value and the contract address.
C9_FreshHandles ==
  (/\ Len(pairRuns) = 2
   /\ pairRuns[1].out.path = "compat"
   /\ pairRuns[2].out.path = "compat"
   /\ pairRuns[1].ts # pairRuns[2].ts \/ pairRuns[1].nonce # pairRuns[2].nonce)
    => /\ pairRuns[1].out.handle # pairRuns[2].out.handle
       /\ ProofCarries(pairArgs, pairRuns[1].out.proof)
       /\ ProofCarries(pairArgs, pairRuns[2].out.proof)

(***************************************************************************)
(* Properties of createEncryptedParams and of the argument list            *)
(* (specification SpecPar).                                                *)
(***************************************************************************)
\* the builder calls made so far are those for parameters 1, 2, ... in
\* order, each started after the one before it ended, and nothing follows a
\* failed one
LogInOrder ==
  \A j \in 1..Len(parLog) :
    /\ parLog[j].i = (j + 1) \div 2
    /\ (j % 2 = 1) => parLog[j].ev = "start"
    /\ (j % 2 = 0) => parLog[j].ev \in {"end", "fail"}
    /\ parLog[j].ev = "fail" => j = Len(parLog)

\* C11: createEncryptedParams calls the builder once per declared parameter,
\* in declaration order and one at a time; a builder failure for parameter k
\* rejects the call with no later builder call and no list returned; on
\* success result[i] is built from params[i] and from the builder call made
\* for it.
C11_OncePerParamInOrder ==
  /\ LogInOrder
  /\ (\E j \in 1..Len(parLog) : parLog[j].ev = "fail")
       => parPc = "rejected" /\ ~parReturned.given
  /\ parPc = "rejected" => ~parReturned.given
  /\ parPc \in {"resolved", "sent"}
       => /\ parReturned.given
          /\ Len(parLog) = 2 * Len(parParams)
          /\ Len(parReturned.list) = Len(parParams)
          /\ \A i \in 1..Len(parParams) :
               /\ parLog[2 * i].ev = "end"
               /\ parReturned.list[i].name = parParams[i].name
               /\ parReturned.list[i].type = parParams[i].type
               /\ parReturned.list[i].originalValue = parParams[i].value
               /\ parReturned.list[i].handle = parLog[2 * i].out.handle
               /\ parReturned.list[i].proof = parLog[2 * i].out.proof

\* two parameters declared, the builder resolved for the first and rejected
\* for the second
C11_Witness ==
  /\ Len(parParams) = 2
  /\ parPc = "rejected"
  /\ Len(parLog) = 4
  /\ parLog[2].ev = "end"
  /\ parLog[4].ev = "fail"

\* C12: the target function is called with 2n arguments for n encrypted
\* parameters, the handle of parameter i followed by its proof, in the
\* order of the list.
C12_ArgsAreFlattenedPairs ==
  parPc = "sent"
    => /\ Len(parTxArgs) = 2 * Len(parReturned.list)
       /\ \A i \in 1..Len(parReturned.list) :
            /\ parTxArgs[2 * i - 1] = parReturned.list[i].handle
            /\ parTxArgs[2 * i] = parReturned.list[i].proof

\* two parameters of different types, one of them 64-bit, with different
\* handles
C12_Witness ==
  /\ parPc = "sent"
  /\ Len(parReturned.list) = 2
  /\ parReturned.list[1].type = "euint64"
  /\ parReturned.list[2].type = "ebool"
  /\ parReturned.list[1].handle # parReturned.list[2].handle

(***************************************************************************)
(* Properties of the manager's chain reads and network queries             *)
(* (specification SpecChain).                                              *)
(***************************************************************************)
\* C13: verifyTransaction never rejects; with no receipt, or when the
\* receipt lookup fails, it resolves with isValid false and every other
\* field null; with a receipt it resolves with isValid true and the
\* receipt's block number, gas used, status and `to' address.
C13_VerifyNeverRejects ==
  (qKind = "verify" /\ qPc = "done")
    => /\ qOutcome.status = "resolved"
       /\ (qRead.read = "threw" \/ ~qRead.r.mined)
            => qOutcome.value = VerifyInvalid
       /\ (qRead.read = "yes" /\ qRead.r.mined)
            => /\ qOutcome.value.isValid
               /\ qOutcome.value.blockNumber = Some(qRead.r.blockNumber)
               /\ qOutcome.value.gasUsed = Some(BigIntToString(qRead.r.gasUsed))
               /\ qOutcome.value.status = Some(qRead.r.status)
               /\ qOutcome.value.contractAddress = qRead.r.to

\* the receipt lookup failed although the transaction is mined
C13_Witness ==
  /\ qKind = "verify"
  /\ qPc = "done"
  /\ qRead.read = "threw"
  /\ chReceipt.mined
  /\ qOutcome.status = "resolved"

\* C14: getTransactionStatus reports confirmed exactly when the receipt it
\* read has status 1, whatever the depth; confirmations is the height it
\* read minus the receipt's block number; with no receipt it reports not
\* confirmed, 0 confirmations and null block number and gas.
C14_ConfirmedIsStatusBased ==
  (qKind = "status" /\ qPc = "done" /\ qOutcome.status = "resolved")
    => /\ qOutcome.value.confirmed
            <=> (qRead.r.mined /\ qRead.r.status = 1)
       /\ qRead.r.mined
            => /\ qOutcome.value.confirmations
                    = qHeight - qRead.r.blockNumber
               /\ qOutcome.value.blockNumber = Some(qRead.r.blockNumber)
               /\ qOutcome.value.gasUsed = Some(BigIntToString(qRead.r.gasUsed))
       /\ ~qRead.r.mined
            => /\ qOutcome.value.confirmations = 0
               /\ qOutcome.value.blockNumber = Null
               /\ qOutcome.value.gasUsed = Null

\* confirmed is reported at depth 0: the height read is the receipt's block
C14_Witness ==
  /\ qKind = "status"
  /\ qPc = "done"
  /\ qOutcome.status = "resolved"
  /\ qOutcome.value.confirmed
  /\ qOutcome.value.confirmations = 0

\* C15: isNetworkSupported is true for 11155111 and 31337 and false for
\* every other chain id, 0 and 1 among them.
C15_AllowListOnly ==
  (qKind = "network" /\ qPc = "done")
    => /\ qOutcome.value.supported <=> qChain \in {11155111, 31337}
       /\ qChain \in {0, 1} => ~qOutcome.value.supported

\* the query about chain id 1 answered false
C15_Witness ==
  /\ qKind = "network"
  /\ qPc = "done"
  /\ qChain = 1
  /\ ~qOutcome.value.supported

(***************************************************************************)
(* Properties of the loader, the cache and the factory (specification      *)
(* SpecInst).                                                              *)
(***************************************************************************)
\* C16: a createFhevmInstance call whose signal was aborted before it
\* returned ends with the cancellation error and leaves the key cache as it
\* was when the call started.  Stated for the calls in which no awaited
\* step rejected on its own account (such a call ends with that step's
\* error, aborted or not).
C16_CancelLeavesCacheUntouched ==
  (inst.pc = "done" /\ inst.kind = "direct" /\ inst.aborted
     /\ inst.err = "none")
    => /\ inst.outcome = "cancelled"
       /\ keyCache = inst.cacheBefore

\* C17: when acquiring the engine fails on a real network (load or shape
\* error, initSDK error, invalid ACL address, createInstance error),
\* createFHEVMClient / FHEVMMetaManager.initialize reject and the manager
\* is not left initialized.
C17_EngineFailureSurfaced ==
  (/\ inst.pc = "done"
   /\ inst.kind = "client"
   /\ inst.err \in {"load", "initSDK", "acl", "createInstance"})
    => /\ inst.managerOutcome = "rejected"
       /\ ~inst.managerInitialized

\* C18: a load() call made while an injected script is still being fetched
\* and the engine is not defined yet stays pending for as long as the
\* script has not finished.
C18_LoadWaitsForScriptInFlight ==
  (lastLoad.inFlightAtCall /\ ScriptInFlight)
    => lastLoad.outcome = "waiting"

\* an engine with all three capabilities, the third with a valid address
FullyValid(o) ==
  o.present /\ o.initSDK /\ o.createInstance /\ o.config /\ o.aclValid

\* C19: load() resolves only when the engine present at that moment has an
\* initialization function, an instance-creation function and a network
\* configuration whose address field is a valid address.
C19_LoadResolvesOnlyOnValidEngine ==
  \A r \in {lastLoad, injector} :
    r.outcome = "resolved" => FullyValid(r.sdk)

\* C20: with a valid engine present, a load() call resolves at once, injects
\* no script element and changes nothing else, at every call.
C20_LoadIdempotentWhenPresent ==
  [][(loadCount' = loadCount + 1 /\ FullyValid(winSdk))
       => /\ lastLoad'.outcome = "resolved"
          /\ UNCHANGED <<winSdk, scripts, injector, keyCache, initCalls,
                         inst, instCount>>]_vars

\* load() was called at least twice with a valid engine present and no
\* script element was ever injected
C20_Witness ==
  /\ loadCount >= 2
  /\ FullyValid(winSdk)
  /\ lastLoad.by = "caller"
  /\ lastLoad.outcome = "resolved"
  /\ scripts = << >>

\* C21: over any interleaving of load() calls, made by the factory or by
\* other callers, at most one script element with the engine's url is ever
\* put into the document.
C21_OneScriptElement == Len(scripts) <= 1

\* several load() calls were made, by the factory and by another caller,
\* the last of them while the injected element was in the document
C21_Witness ==
  /\ Len(scripts) = 1
  /\ loadCount >= 2
  /\ injector.by = "factory"
  /\ lastLoad.by = "caller"
  /\ lastLoad.outcome \in {"rejected", "resolved"}

\* C22: a load() call made after the fetch of the script failed, with no
\* engine defined and no fetch under way, starts a new fetch (and so can
\* resolve once the resource is reachable): it is waiting for the new
\* script or has resolved.
C22_LoadRetriesAfterFailedFetch ==
  lastLoad.failedAtCall => lastLoad.outcome \in {"waiting", "resolved"}

\* C23: PublicKeyStorage.get never throws or rejects: when the store cannot
\* be opened or read, the factory call receives the empty result, goes on to
\* createInstance with no cached material and, unless it is cancelled or
\* the engine's createInstance fails, returns the instance.
C23_GetNeverThrows ==
  /\ inst.err # "cacheGet"
  /\ (inst.getFailed /\ ~inst.aborted)
       => /\ inst.pc \in {"creating", "cacheSet", "done"}
          /\ inst.cached = NoKeys
          /\ inst.err \in {"none", "createInstance"}
  /\ (inst.getFailed /\ ~inst.aborted /\ inst.pc = "done" /\ inst.created)
       => inst.outcome = "instance"

\* a call whose cache read failed returned the engine's instance
C23_Witness ==
  /\ inst.getFailed
  /\ inst.pc = "done"
  /\ inst.outcome = "instance"

\* C26: on the real-network path the cache is read before the engine's
\* createInstance is called, in every call, and the cache is written only
\* after createInstance has succeeded: a call whose creation failed leaves
\* the cache as it was.
C26_CacheReadBeforeWriteAfter ==
  /\ (inst.pc \in {"creating", "cacheSet"} \/ inst.created
        \/ inst.err = "createInstance") => inst.cacheRead
  /\ inst.err = "createInstance" => keyCache = inst.cacheBefore
  /\ keyCache # inst.cacheBefore => inst.created

\* a first call wrote the cache after its creation succeeded; a later call
\* read the cache, its creation failed and the cache is as it was
C26_Witness ==
  /\ instCount >= 2
  /\ inst.pc = "done"
  /\ inst.err = "createInstance"
  /\ inst.cacheRead
  /\ inst.cacheBefore # NoKeys
  /\ keyCache = inst.cacheBefore

AsReturnedKey(stored) ==
  [js |-> "object", id |-> stored.publicKeyId, data |-> stored.publicKey]
AsReturnedParams(stored) == [js |-> "object", bits2048 |-> stored]

\* C24: cache round trip.  A get never throws; on an ACL address for which
\* a public key (public params) was set, a get whose read works returns
\* that key (those params); on an ACL address that was never set such a
\* get returns exactly {publicKey: null, publicParams: null}.
C24_CacheRoundTrip ==
  storeOp.kind = "get" =>
    LET acl == storeOp.acl
        key == publicKeyStore[acl]
        params == paramsStore[acl]
        worked == storeOp.dbOk /\ storeOp.keyReadOk /\ storeOp.paramsReadOk
    IN /\ ~storeOp.result.threw
       /\ (worked /\ key # Undefined)
            => storeOp.result.publicKey = AsReturnedKey(key)
       /\ (worked /\ params # Undefined)
            => storeOp.result.publicParams = AsReturnedParams(params)
       /\ (worked /\ key = Undefined /\ params = Undefined)
            => /\ storeOp.result.publicKey = JsNull
               /\ storeOp.result.publicParams = JsNull

\* C25: a set that is given only one of publicKey / publicParams, and whose
\* transaction completes, writes that field of the ACL address and leaves
\* the other field and every other ACL address as they were.
C25_PartialSetFrame ==
  [][(/\ storeOps' = storeOps + 1
      /\ storeOp'.kind = "set"
      /\ storeOp'.dbOk)
       => LET acl == storeOp'.acl
              key == storeOp'.publicKey
              params == storeOp'.publicParams
          IN /\ (key # JsNull /\ params = JsNull)
                  => /\ publicKeyStore'
                          = [publicKeyStore EXCEPT ![acl] = key]
                     /\ paramsStore' = paramsStore
             /\ (key = JsNull /\ params # JsNull)
                  => /\ paramsStore' = [paramsStore EXCEPT ![acl] = params]
                     /\ publicKeyStore' = publicKeyStore]_vars

\* both fields of both addresses were stored and the latest set then
\* replaced only the public key of acl1
C25_Witness ==
  /\ storeOp.kind = "set"
  /\ storeOp.dbOk
  /\ storeOp.acl = "acl1"
  /\ storeOp.publicKey # JsNull
  /\ storeOp.publicParams = JsNull
  /\ publicKeyStore["acl1"] = storeOp.publicKey
  /\ paramsStore["acl1"] \in StoredPublicParams
  /\ publicKeyStore["acl2"] \in StoredPublicKeys

(***************************************************************************)
(* Claims about overlapping createFhevmInstance calls (specification       *)
(* SpecRace).                                                              *)
(***************************************************************************)
\* C28: initSDK is invoked at most once per process, over any sequence and
\* any interleaving of createFhevmInstance calls on a real network.
C28_InitSdkAtMostOnce == initCalls <= 1

C30_HandleBoundToNetwork ==
  [][(/\ callCount' = callCount + 1
      /\ call'.pc = "encrypting"
      /\ initPc = "idle"
      /\ isInitialized)
       => managerRef.chainId = walletChain]_vars

(***************************************************************************)
(* Claims about the polling task and the records (specification Spec).     *)
(***************************************************************************)
\* C31: a tick of the polling task queries only entries that are neither
\* completed nor failed and that have a txHash; when the tick ends, the
\* history holds the same entries in the same order, and every terminal
\* entry, like every entry the tick did not query, is as it was.
C31_PollTickFrame ==
  [][(pollPc = "querying" /\ pollPc' = "idle")
       => /\ Len(transactions') = Len(transactions)
          /\ \A k \in 1..Len(transactions) :
               /\ transactions'[k].id = transactions[k].id
               /\ (transactions[k].status \in Terminal
                     \/ ~transactions[k].txHash)
                    => transactions'[k] = transactions[k]
          /\ \A k \in 1..Len(pollSnapshot) :
               \A answer \in PollAnswers :
                 (pollSnapshot[k].status \in Terminal
                    \/ ~pollSnapshot[k].txHash)
                   => PollEntry(pollSnapshot[k], answer) = pollSnapshot[k]]_vars

\* a tick is under way on a history that holds a failed entry with a txHash
C31_Witness ==
  /\ pollPc = "querying"
  /\ Len(pollSnapshot) > 0
  /\ pollSnapshot[1].status = "failed"
  /\ pollSnapshot[1].txHash

\* C32: every record in the hook's history is completed or failed, in every
\* state, and so a tick of the polling task finds no entry to query.
C32_HistoryEntriesTerminal ==
  /\ \A k \in 1..Len(transactions) : transactions[k].status \in Terminal
  /\ \A k \in 1..Len(pollSnapshot) : PollSkips(pollSnapshot[k])

\* a tick is under way on a history whose entry came from a receipt
C32_Witness ==
  /\ pollPc = "querying"
  /\ Len(transactions) > 0
  /\ transactions[1].status = "completed"
  /\ call.pc = "resolved"

\* the records there are: the one the manager is working on or has thrown
\* away, the history and the current transaction
Records ==
  {t \in {call.tx, currentTransaction}
        \cup {transactions[k] : k \in 1..Len(transactions)} : t.id # 0}

\* C33: for every record, in every state: a set txHash means the status is
\* not pending; a completed record has txHash, blockNumber and gasUsed;
\* blockNumber or gasUsed is set only when txHash is.
C33_RecordFieldsConsistent ==
  \A t \in Records :
    /\ t.txHash => t.status # "pending"
    /\ t.status = "completed" => (t.txHash /\ t.blockNumber /\ t.gasUsed)
    /\ (t.blockNumber \/ t.gasUsed) => t.txHash

\* a request failed after the transaction was sent: the record is failed,
\* has a txHash and neither blockNumber nor gasUsed
C33_Witness ==
  /\ call.pc = "rejected"
  /\ call.tx.id # 0
  /\ call.tx.status = "failed"
  /\ call.tx.txHash
  /\ ~call.tx.blockNumber

\* C34: getTransactionStatus never reports a negative confirmation count,
\* although the receipt and the height come from two reads that are
\* answered independently while the chain advances.
C34_ConfirmationsNotNegative ==
  (qKind = "status" /\ qPc = "done" /\ qOutcome.status = "resolved")
    => qOutcome.value.confirmations >= 0

(***************************************************************************)
(* Claims about FHEVMProvider (specification SpecProv).                    *)
(***************************************************************************)
\* C35: once every initializeFHEVM run that was started has finished, the
\* stored fhevmClient, isReady and sdkStatus are those of the run started
\* for the latest provider, account and chain: a run started earlier that
\* finishes later does not overwrite them.
C35_LatestInitializationWins ==
  (Len(initRuns) > 0 /\ \A i \in 1..Len(initRuns) : initRuns[i].pc = "done")
    => LET latest == initRuns[Len(initRuns)].outcome
       IN  /\ fhevmClient = latest.client
           /\ provIsReady = latest.isReady
           /\ latest.sdkStatus # "kept" => sdkStatus = latest.sdkStatus

C37_HandleFromCurrentSelection ==
  [][(countHandle' # countHandle /\ countHandle'.set)
       => /\ countHandle'.call \in Pending(refreshes)
          /\ countHandle'.chainId = ctrChain
          /\ countHandle'.chainId = refreshes[countHandle'.call].chainId
          /\ countHandle'.address = fheCounterRef.address
          /\ countHandle'.address = refreshes[countHandle'.call].address]_vars

\* a handle is stored, and a response issued on the chain of the first
\* render arrived after a switch and was dropped
C37_Witness ==
  /\ countHandle.set
  /\ \E i \in 1..Len(refreshes) :
       /\ refreshes[i].pc = "resolved"
       /\ ~refreshes[i].accepted
       /\ refreshes[i].chainId = mountChain

SupportedChains == {11155111, 31337}

\* C38: after the wallet has switched from one supported chain to another,
\* a getCount() response that was issued for the contract of the chain now
\* selected is accepted: countHandle is set from it.
C38_CurrentChainResponseAccepted ==
  [][\A i \in Pending(refreshes) :
       (/\ prevChain \in SupportedChains
        /\ ctrChain \in SupportedChains
        /\ prevChain # ctrChain
        /\ refreshes'[i].pc = "resolved"
        /\ refreshes[i].chainId = ctrChain
        /\ refreshes[i].address = fheCounterRef.address)
         => (countHandle'.set /\ countHandle'.call = i)]_vars

(***************************************************************************)
(* Claims about FhevmDecryptionSignature (specification SpecSig).          *)
(***************************************************************************)
\* C40: loadOrSign never returns an expired stored signature: the stored
\* one is returned only when now < startTimestamp + durationDays * 86400;
\* otherwise, unless the signer or the storage fails, a new signature is
\* signed, stored under the same key and returned.
C40_NoExpiredStoredSignature ==
  sigCall.pc = "done"
    => LET r == sigCall.result
           key == StorageKey(sigCall.userAddress, sigCall.contractAddresses)
       IN  /\ r.kind = "stored"
                => /\ sigCall.stored.text = "json"
                   /\ r.startTimestamp = sigCall.stored.startTimestamp
                   /\ r.durationDays = sigCall.stored.durationDays
                   /\ sigCall.now
                        < r.startTimestamp + r.durationDays * 86400
           /\ r.kind = "new"
                => /\ \/ sigCall.stored.text # "json"
                      \/ sigCall.now >= sigCall.stored.startTimestamp
                            + sigCall.stored.durationDays * 86400
                   /\ r.startTimestamp = sigCall.now
                   /\ sigStore[key] = Stringify(r)
           /\ r.kind = "null" <=> sigCall.threw

\* a call made exactly at the expiry of the stored signature signed a new
\* one and stored it
C40_Witness ==
  /\ sigCall.pc = "done"
  /\ sigCall.result.kind = "new"
  /\ sigCall.stored.text = "json"
  /\ sigCall.now = sigCall.stored.startTimestamp
                     + sigCall.stored.durationDays * 86400

=============================================================================
